---- MODULE Spec2Model ----
(***************************************************************************)
(* A model of the iptools part of miniutils-rs: the CIDR collapser         *)
(* (src/src/iptools/collapsing.rs) and the value types and iterators of    *)
(* src/src/iptools/structs.rs.                                             *)
(*                                                                         *)
(* Address widths are scaled down: the code's arithmetic depends on the    *)
(* widths only through IPV4_BITS < IPV6_BITS = the width of u128, and that *)
(* relation is kept.  An IpAddr is [fam, v], a Cidr is [addr, prefix], a   *)
(* Range is [fam, beg, end], an IpRange is [beg, end] of IpAddr.           *)
(***************************************************************************)
EXTENDS Integers, Sequences, FiniteSets, TLC

(* ------------------------------ bounds -------------------------------- *)

\* width of an IPv4 address (32 in the code), scaled
IPV4_BITS == 2
\* width of an IPv6 address and of u128 (128 in the code), scaled: wide enough
\* for blocks of more than MAX_RANGE_SIZE addresses below the whole space
IPV6_BITS == IPV4_BITS + 2
\* longest input list handed to a collapse entry point
MaxInput == 2
\* largest small gap tolerance tried (u128::MAX is tried as well)
MaxGap == 2
\* blocks a Vec<Cidr> can hold before its growth fails and the process aborts
MaxBlocks == 8
\* calls of next() made on one iterator
MaxNext == 10
\* characters of a path handed to normalize_path
MaxPath == 4
\* threads that share one ProcessInfo
MaxThreads == 2
\* the clock stops here
MaxTime == 5
\* ranges handed to merge_ranges and merge_ranges_fuzzy directly
MaxMerge == 3

(* --------------------------- integer types ---------------------------- *)

U128_BITS == IPV6_BITS
U128_MAX == 2^U128_BITS - 1
U32_MAX == 2^IPV4_BITS - 1

\* u128::saturating_add
saturating_add(a, b) == IF a + b > U128_MAX THEN U128_MAX ELSE a + b

\* u128::saturating_sub, u8::saturating_sub
saturating_sub(a, b) == IF b > a THEN 0 ELSE a - b

\* `v as u32`
as_u32(v) == v % (U32_MAX + 1)

\* `1u128 << n`, for n below the width of u128
shl1(n) == (2^n) % (U128_MAX + 1)

RECURSIVE BitAnd(_, _)
\* a & b
BitAnd(a, b) ==
    IF a = 0 \/ b = 0 THEN 0
    ELSE ((a % 2) * (b % 2)) + 2 * BitAnd(a \div 2, b \div 2)

RECURSIVE BitOr(_, _)
\* a | b
BitOr(a, b) ==
    IF a = 0 THEN b
    ELSE IF b = 0 THEN a
    ELSE (IF (a % 2) + (b % 2) > 0 THEN 1 ELSE 0) + 2 * BitOr(a \div 2, b \div 2)

\* !a on an unsigned integer whose all-ones value is max
BitNot(a, max) == max - a

RECURSIVE trailing_zeros(_)
\* u128::trailing_zeros: the width of u128 for 0
trailing_zeros(x) ==
    IF x = 0 THEN U128_BITS
    ELSE IF x % 2 = 1 THEN 0
    ELSE 1 + trailing_zeros(x \div 2)

RECURSIVE BitLen(_)
BitLen(x) == IF x = 0 THEN 0 ELSE 1 + BitLen(x \div 2)

\* u128::leading_zeros
leading_zeros(x) == U128_BITS - BitLen(x)

Min(a, b) == IF a <= b THEN a ELSE b
Max(a, b) == IF a >= b THEN a ELSE b

(* ----------------------------- value types ---------------------------- *)

IpFam == {"V4", "V6"}

\* the width the code selects with `match fam { V4 => IPV4_BITS, V6 => IPV6_BITS }`
BitsOf(fam) == IF fam = "V4" THEN IPV4_BITS ELSE IPV6_BITS

V4Addrs == [fam : {"V4"}, v : 0..U32_MAX]
V6Addrs == [fam : {"V6"}, v : 0..U128_MAX]
IpAddrs == V4Addrs \cup V6Addrs

\* Ipv6Addr::UNSPECIFIED
UNSPECIFIED == [fam |-> "V6", v |-> 0]

\* every Cidr whose prefix is in 0..=width of its family, host bits arbitrary
Cidrs ==
    [addr : V4Addrs, prefix : 0..IPV4_BITS] \cup [addr : V6Addrs, prefix : 0..IPV6_BITS]

\* every well-formed Range: beg <= end, both inside the family's address space
Ranges ==
    {r \in [fam : {"V4"}, beg : 0..U32_MAX, end : 0..U32_MAX] : r.beg <= r.end}
    \cup {r \in [fam : {"V6"}, beg : 0..U128_MAX, end : 0..U128_MAX] : r.beg <= r.end}

\* Range::cmp_key
cmp_key(r) == <<IF r.fam = "V4" THEN 0 ELSE 1, r.beg, r.end>>

\* the Ord of the tuple (u8, u128, u128): a.cmp(&b) == Less
KeyLess(a, b) ==
    \/ a[1] < b[1]
    \/ a[1] = b[1] /\ a[2] < b[2]
    \/ a[1] = b[1] /\ a[2] = b[2] /\ a[3] < b[3]

(* ------------------------- collapsing.rs helpers ---------------------- *)

\* mask_u128 with the low bits kept and the high bits cleared
mask_u128_low_bits(bits, prefix) ==
    IF prefix = 0 THEN 0
    ELSE IF prefix >= bits THEN U128_MAX
    ELSE LET all == IF bits = IPV6_BITS THEN U128_MAX ELSE shl1(bits) - 1
             low == bits - prefix
         IN  BitAnd(all, shl1(low) - 1)

\* mask_u128: prefix high bits of a `bits`-wide value set, the rest zero
mask_u128(bits, prefix) ==
    IF prefix = 0 THEN 0
    ELSE IF prefix >= bits THEN U128_MAX
    ELSE LET all == IF bits = IPV6_BITS THEN U128_MAX ELSE shl1(bits) - 1
             low == bits - prefix
         IN  BitAnd(all, BitNot(shl1(low) - 1, U128_MAX))

\* floor_log2_u128
floor_log2_u128(x) == saturating_sub(U128_BITS - 1, leading_zeros(x))

\* int_to_ip
int_to_ip(fam, v) ==
    IF fam = "V4" THEN [fam |-> "V4", v |-> as_u32(v)] ELSE [fam |-> "V6", v |-> v]

\* ip_to_host_cidr
ip_to_host_cidr(ip) ==
    IF ip.fam = "V4" THEN [addr |-> ip, prefix |-> IPV4_BITS]
    ELSE [addr |-> ip, prefix |-> IPV6_BITS]

\* cidr_to_range
cidr_to_range(c) ==
    IF c.addr.fam = "V4"
    THEN LET pre == Min(c.prefix, IPV4_BITS)
             ip == c.addr.v
             mask == as_u32(mask_u128(IPV4_BITS, pre))
             net == BitAnd(ip, mask)
             end == BitOr(net, BitNot(mask, U32_MAX))
         IN  [fam |-> "V4", beg |-> net, end |-> end]
    ELSE LET pre == Min(c.prefix, IPV6_BITS)
             ip == c.addr.v
             mask == mask_u128(IPV6_BITS, pre)
             net == BitAnd(ip, mask)
             end == BitOr(net, BitNot(mask, U128_MAX))
         IN  [fam |-> "V6", beg |-> net, end |-> end]

\* cidr_to_range lines 165 and 176: the mask of the block
mask_of(c) ==
    IF c.addr.fam = "V4" THEN as_u32(mask_u128(IPV4_BITS, Min(c.prefix, IPV4_BITS)))
    ELSE mask_u128(IPV6_BITS, Min(c.prefix, IPV6_BITS))

RECURSIVE InsertSorted(_, _)
\* one insertion of the stable sort: r goes after every element not greater than it
InsertSorted(sorted, r) ==
    IF sorted = <<>> THEN <<r>>
    ELSE IF KeyLess(cmp_key(r), cmp_key(Head(sorted)))
         THEN <<r>> \o sorted
         ELSE <<Head(sorted)>> \o InsertSorted(Tail(sorted), r)

RECURSIVE SortFrom(_, _, _)
SortFrom(s, i, acc) ==
    IF i > Len(s) THEN acc ELSE SortFrom(s, i + 1, InsertSorted(acc, s[i]))

\* the ranges left in the order of the input
sort_by_cmp_key_skipped(s) == s

\* ranges.sort_by(|a, b| a.cmp_key().cmp(&b.cmp_key()))
sort_by_cmp_key(s) == SortFrom(s, 1, <<>>)

\* merge_step for overlap alone: `r.beg <= last.end`
merge_step_overlap_only(out, r) ==
    IF out # <<>> /\ out[Len(out)].fam = r.fam /\ r.beg <= out[Len(out)].end
    THEN IF r.end > out[Len(out)].end
         THEN [out EXCEPT ![Len(out)].end = r.end]
         ELSE out
    ELSE Append(out, r)

\* the body of merge_ranges' loop: out after the range r has been visited
merge_step(out, r) ==
    IF out # <<>> /\ out[Len(out)].fam = r.fam
                  /\ r.beg <= saturating_add(out[Len(out)].end, 1)
    THEN IF r.end > out[Len(out)].end
         THEN [out EXCEPT ![Len(out)].end = r.end]
         ELSE out
    ELSE Append(out, r)

RECURSIVE MergeFrom(_, _, _)
MergeFrom(sorted, i, out) ==
    IF i > Len(sorted) THEN out ELSE MergeFrom(sorted, i + 1, merge_step(out, sorted[i]))

\* merge_ranges
merge_ranges(sorted) == MergeFrom(sorted, 1, <<>>)

\* fuzzy_step with the swallowed range dropped: `continue` without extending end
fuzzy_step_no_extend(out, r, max_gap) ==
    IF out # <<>> /\ out[Len(out)].fam = r.fam
                  /\ saturating_sub(r.beg, saturating_add(out[Len(out)].end, 1)) <= max_gap
    THEN out
    ELSE Append(out, r)

\* fuzzy_step with the operands of the comparison swapped: max_gap <= gap
fuzzy_step_swapped(out, r, max_gap) ==
    IF out # <<>> /\ out[Len(out)].fam = r.fam
                  /\ max_gap <= saturating_sub(r.beg, saturating_add(out[Len(out)].end, 1))
    THEN [out EXCEPT ![Len(out)].end = Max(r.end, out[Len(out)].end)]
    ELSE Append(out, r)

\* fuzzy_step with the gap one too small: measured from end + 2
fuzzy_step_off_by_one(out, r, max_gap) ==
    IF out # <<>> /\ out[Len(out)].fam = r.fam
                  /\ saturating_sub(r.beg, saturating_add(out[Len(out)].end, 2)) <= max_gap
    THEN [out EXCEPT ![Len(out)].end = Max(r.end, out[Len(out)].end)]
    ELSE Append(out, r)

\* fuzzy_step with the gap compared strictly: gap < max_gap
fuzzy_step_strict(out, r, max_gap) ==
    IF out # <<>> /\ out[Len(out)].fam = r.fam
                  /\ saturating_sub(r.beg, saturating_add(out[Len(out)].end, 1)) < max_gap
    THEN [out EXCEPT ![Len(out)].end = Max(r.end, out[Len(out)].end)]
    ELSE Append(out, r)

\* fuzzy_step with the family of the two ranges not compared
fuzzy_step_any_family(out, r, max_gap) ==
    IF out # <<>> /\ saturating_sub(r.beg, saturating_add(out[Len(out)].end, 1)) <= max_gap
    THEN [out EXCEPT ![Len(out)].end = Max(r.end, out[Len(out)].end)]
    ELSE Append(out, r)

\* the body of merge_ranges_fuzzy's loop
fuzzy_step(out, r, max_gap) ==
    IF out # <<>> /\ out[Len(out)].fam = r.fam
                  /\ saturating_sub(r.beg, saturating_add(out[Len(out)].end, 1)) <= max_gap
    THEN [out EXCEPT ![Len(out)].end = Max(r.end, out[Len(out)].end)]
    ELSE Append(out, r)

RECURSIVE FuzzyFrom(_, _, _, _)
FuzzyFrom(merged, i, out, max_gap) ==
    IF i > Len(merged) THEN out
    ELSE FuzzyFrom(merged, i + 1, fuzzy_step(out, merged[i], max_gap), max_gap)

\* merge_ranges_fuzzy
merge_ranges_fuzzy(merged, max_gap) == FuzzyFrom(merged, 1, <<>>, max_gap)

\* range_to_cidrs, lines 241-245: the full address space special case
full_space(r) == BitsOf(r.fam) = IPV6_BITS /\ r.beg = 0 /\ r.end = U128_MAX

\* the prefix of the block at start, with the alignment of start left out
block_prefix_fit_only(bits, start, end) ==
    bits - floor_log2_u128(saturating_add(end - start, 1))

\* range_to_cidrs, lines 257-264: the prefix of the block emitted at start
block_prefix(bits, start, end) ==
    LET tz == trailing_zeros(start)
        max_align_prefix == saturating_sub(bits, Min(tz, bits))
        remaining == saturating_add(end - start, 1)
        max_fit_prefix == bits - floor_log2_u128(remaining)
    IN  Max(max_align_prefix, max_fit_prefix)

\* range_to_cidrs, lines 280-282: start after the block at start has been emitted
advance(bits, start, prefix) == saturating_add(start, shl1(bits - prefix))

(* -------------------- range_to_cidrs as a function -------------------- *)

\* A run of a loop that pushes blocks ends in one of two ways: it returns
\* (ok = TRUE, out = the list returned) or the Vec cannot grow any more and the
\* process aborts (ok = FALSE, out = the blocks emitted until then).

RECURSIVE rtc_while(_, _, _, _)
\* range_to_cidrs, lines 251-285: the while loop, from `start` with `acc` pushed
rtc_while(fam, start, end, acc) ==
    IF start > end THEN [ok |-> TRUE, out |-> acc]
    ELSE IF Len(acc) >= MaxBlocks THEN [ok |-> FALSE, out |-> acc]
    ELSE LET bits == BitsOf(fam)
             prefix == block_prefix(bits, start, end)
             pushed == Append(acc, [addr |-> int_to_ip(fam, start), prefix |-> prefix])
         IN  IF bits = IPV6_BITS /\ prefix = 0
             THEN [ok |-> TRUE, out |-> pushed]
             ELSE rtc_while(fam, advance(bits, start, prefix), end, pushed)

\* range_to_cidrs
range_to_cidrs(r) ==
    IF full_space(r)
    THEN [ok |-> TRUE, out |-> <<[addr |-> UNSPECIFIED, prefix |-> 0]>>]
    ELSE rtc_while(r.fam, r.beg, r.end, <<>>)

RECURSIVE extend_all(_, _, _)
\* `for r in merged { out.extend(range_to_cidrs(r)); }`
extend_all(merged, i, acc) ==
    IF i > Len(merged) THEN [ok |-> TRUE, out |-> acc]
    ELSE LET one == range_to_cidrs(merged[i])
         IN  IF one.ok THEN extend_all(merged, i + 1, acc \o one.out)
             ELSE [ok |-> FALSE, out |-> acc \o one.out]

(* ------------------------------- state -------------------------------- *)

VARIABLES
    pc,       \* "idle", "for" (the loop over the merged ranges), "while" (the loop
              \* of range_to_cidrs), "done", "err", "aborted"
    entry,    \* the entry point that was called
    input,    \* its input list
    max_gap,  \* its gap tolerance
    todo,     \* the merged ranges the `for r in merged` loop has not visited yet
    out,      \* the entry point's `out`
    rtc,      \* the frame of the running range_to_cidrs call: fam, start, end, out
    err,      \* the error an entry point returned, "none" otherwise
    cidr,     \* the Cidr an iterator was made of
    it,       \* the CidrIterator: fam, current, end
    got,      \* what the calls of next() returned so far, in order
    rnew,     \* what IpRange::new returned: the error, or the IpRange
    rit,      \* the IpRangeIterator: current, end, done
    rgot,     \* what the calls of its next() returned so far, in order
    prev,     \* what the iterator made before it of the same IpRange returned
    call,     \* the function of addresses.rs that was called
    arg,      \* its argument: the text, or the two addresses
    checks,   \* whether the build checks arithmetic overflow (a debug build does)
    res,      \* what the call returned, or that it panicked
    now,      \* the clock, in the unit of the intervals
    inner,    \* ProcessInfoInner: upd, the time of the last refresh, and ival
    lock,     \* the RwLock around inner: the threads reading, the thread writing
    thr,      \* where each thread is in mem() or cpu(), and what its check read
    wrote     \* what the last refreshing write section found

\* the collapser's variables and the iterator's
cvars == <<pc, entry, input, max_gap, todo, out, rtc, err>>
\* the IpRange's variables and its iterator's
rvars == <<rnew, rit, rgot, prev>>
\* the variables of a call into addresses.rs
pvars == <<call, arg, checks, res>>
\* the variables of a ProcessInfo and the threads that share it
tvars == <<now, inner, lock, thr, wrote>>
\* all that the collapser leaves alone
ivars == <<cidr, it, got, rvars, pvars, tvars>>
vars == <<pc, entry, input, max_gap, todo, out, rtc, err, cidr, it, got, rnew, rit, rgot, prev,
          call, arg, checks, res, now, inner, lock, thr, wrote>>

NoCidr == [addr |-> [fam |-> "V4", v |-> 0], prefix |-> 0]
NoIter == [fam |-> "none", current |-> 0, end |-> 0]

NoArg == [text |-> <<>>, shape |-> [kind |-> "none", a |-> UNSPECIFIED, b |-> UNSPECIFIED, n |-> 0]]
NoRes == [kind |-> "none", val |-> <<>>, err |-> <<>>]
NoRange == [err |-> "unset"]
NoRangeIter == [current |-> [fam |-> "none", v |-> 0], end |-> [fam |-> "none", v |-> 0],
                done |-> TRUE]

NoFrame == [fam |-> "V4", start |-> 0, end |-> 0, out |-> <<>>]

SeqsUpTo(S, n) == UNION {[1..k -> S] : k \in 0..n}

\* the gap tolerances tried: the small ones and the largest u128
Gaps == 0..MaxGap \cup {U128_MAX}

\* an IpRange's fields are public: any two addresses can be paired
IpRanges == [beg : IpAddrs, end : IpAddrs]

Map(f(_), s) == [i \in 1..Len(s) |-> f(s[i])]

\* procinfo.rs: the bounds of the interval, in units of 100 ms and scaled
MIN_INTERVAL_MS == 2
MAX_INTERVAL_MS == 3

Threads == 1..MaxThreads

\* a thread outside mem() and cpu()
Idle == [pc |-> "idle", upd |-> 0, ival |-> 0]

\* no refreshing write section has run since ProcessInfo::new; otherwise the
\* thread, the time since the refresh before, the interval and the time of
\* the last refresh as the thread's check read them
NoRefresh == [by |-> 0, elapsed |-> 0, ival |-> 0, raced |-> FALSE]

Init ==
    /\ pc = "idle"
    /\ entry = "none"
    /\ input = <<>>
    /\ max_gap = 0
    /\ todo = <<>>
    /\ out = <<>>
    /\ rtc = NoFrame
    /\ err = "none"
    /\ cidr = NoCidr
    /\ it = NoIter
    /\ got = <<>>
    /\ rnew = NoRange
    /\ rit = NoRangeIter
    /\ rgot = <<>>
    /\ prev = <<>>
    /\ call = "none"
    /\ arg = NoArg
    /\ checks = FALSE
    /\ res = NoRes
    /\ now = 0
    /\ inner = [upd |-> 0, ival |-> MIN_INTERVAL_MS]
    /\ lock = [readers |-> {}, writer |-> 0]
    /\ thr = [t \in Threads |-> Idle]
    /\ wrote = NoRefresh

(* ---------------------------- entry points ---------------------------- *)

\* collapse_cidrs lines 24-35: the ranges handed to the decomposition loop
collapse_cidrs_merged(inp, g) ==
    LET ranges == sort_by_cmp_key(Map(cidr_to_range, inp))
        merged == merge_ranges(ranges)
    IN  IF g > 0 THEN merge_ranges_fuzzy(merged, g) ELSE merged

\* collapse_cidrs as a function of its arguments
collapse_cidrs(inp, g) == extend_all(collapse_cidrs_merged(inp, g), 1, <<>>)

\* iprange_to_range with the two addresses taken in the order given
iprange_to_range_as_given(r) ==
    IF r.beg.fam = r.end.fam
    THEN [err |-> "none", range |-> [fam |-> r.beg.fam, beg |-> r.beg.v, end |-> r.end.v]]
    ELSE [err |-> <<"Mismatch", r.beg, r.end>>]

\* iprange_to_range: the Range, or the error
iprange_to_range(r) ==
    IF r.beg.fam = r.end.fam
    THEN LET aa == r.beg.v
             bb == r.end.v
         IN  [err |-> "none",
              range |-> [fam |-> r.beg.fam,
                         beg |-> IF aa <= bb THEN aa ELSE bb,
                         end |-> IF aa <= bb THEN bb ELSE aa]]
    ELSE [err |-> <<"Mismatch", r.beg, r.end>>]

\* the index of the first IpRange of inp that iprange_to_range rejects, 0 if none
FirstBad(inp) ==
    LET bad == {i \in 1..Len(inp) : iprange_to_range(inp[i]).err # "none"}
    IN  IF bad = {} THEN 0 ELSE CHOOSE i \in bad : \A j \in bad : i <= j

ToRange(r) == iprange_to_range(r).range

\* collapse_ranges lines 96-107 and collapse_ranges_fuzzy lines 123-137: the
\* merged ranges, once every IpRange has been converted
collapse_ranges_merged(inp) == merge_ranges(sort_by_cmp_key(Map(ToRange, inp)))
collapse_ranges_fuzzy_merged(inp, g) == merge_ranges_fuzzy(collapse_ranges_merged(inp), g)

\* IpRange::new without the check of the order
IpRange_new_no_order(beg, end) ==
    IF beg.fam # end.fam
    THEN [err |-> <<"Mismatch", IF beg.fam = "V4" THEN beg ELSE end,
                                IF beg.fam = "V4" THEN end ELSE beg>>]
    ELSE [err |-> "none", range |-> [beg |-> beg, end |-> end]]

\* IpRange::new with the two addresses put in order where they are not
IpRange_new_swapping(beg, end) ==
    IF beg.fam # end.fam
    THEN [err |-> <<"Mismatch", IF beg.fam = "V4" THEN beg ELSE end,
                                IF beg.fam = "V4" THEN end ELSE beg>>]
    ELSE IF beg.v > end.v
    THEN [err |-> "none", range |-> [beg |-> end, end |-> beg]]
    ELSE [err |-> "none", range |-> [beg |-> beg, end |-> end]]

\* IpRange::new: the IpRange, or the error
IpRange_new(beg, end) ==
    IF beg.fam # end.fam
    THEN [err |-> <<"Mismatch", IF beg.fam = "V4" THEN beg ELSE end,
                                IF beg.fam = "V4" THEN end ELSE beg>>]
    ELSE IF beg.v > end.v
    THEN [err |-> <<"RangeOrder", beg, end>>]
    ELSE [err |-> "none", range |-> [beg |-> beg, end |-> end]]

\* collapse_ranges and collapse_ranges_fuzzy as functions of their arguments
collapse_ranges(inp) ==
    IF FirstBad(inp) # 0
    THEN [err |-> iprange_to_range(inp[FirstBad(inp)]).err, ok |-> TRUE, out |-> <<>>]
    ELSE LET run == extend_all(collapse_ranges_merged(inp), 1, <<>>)
         IN  [err |-> "none", ok |-> run.ok, out |-> run.out]

collapse_ranges_fuzzy(inp, g) ==
    IF FirstBad(inp) # 0
    THEN [err |-> iprange_to_range(inp[FirstBad(inp)]).err, ok |-> TRUE, out |-> <<>>]
    ELSE LET run == extend_all(collapse_ranges_fuzzy_merged(inp, g), 1, <<>>)
         IN  [err |-> "none", ok |-> run.ok, out |-> run.out]

\* the state in which an entry point starts its `for r in merged` loop
StartFor(name, inp, g, merged) ==
    /\ pc' = "for"
    /\ entry' = name
    /\ input' = inp
    /\ max_gap' = g
    /\ todo' = merged
    /\ out' = <<>>
    /\ rtc' = NoFrame
    /\ err' = "none"
    /\ UNCHANGED ivars

\* collapse_cidrs
CollapseCidrs ==
    /\ pc = "idle"
    /\ \E inp \in SeqsUpTo(Cidrs, MaxInput), g \in Gaps :
          StartFor("collapse_cidrs", inp, g, collapse_cidrs_merged(inp, g))

\* collapse_ips
CollapseIps ==
    /\ pc = "idle"
    /\ \E inp \in SeqsUpTo(IpAddrs, MaxInput), g \in Gaps :
          StartFor("collapse_ips", inp, g,
                   collapse_cidrs_merged(Map(ip_to_host_cidr, inp), g))

\* the state in which an entry point returns an error
ReturnErr(name, inp, g, e) ==
    /\ pc' = "err"
    /\ entry' = name
    /\ input' = inp
    /\ max_gap' = g
    /\ todo' = <<>>
    /\ out' = <<>>
    /\ rtc' = NoFrame
    /\ err' = e
    /\ UNCHANGED ivars

\* collapse_ranges
CollapseRanges ==
    /\ pc = "idle"
    /\ \E inp \in SeqsUpTo(IpRanges, MaxInput) :
          IF FirstBad(inp) # 0
          THEN ReturnErr("collapse_ranges", inp, 0, iprange_to_range(inp[FirstBad(inp)]).err)
          ELSE StartFor("collapse_ranges", inp, 0, collapse_ranges_merged(inp))

\* collapse_ranges_fuzzy
CollapseRangesFuzzy ==
    /\ pc = "idle"
    /\ \E inp \in SeqsUpTo(IpRanges, MaxInput), g \in Gaps :
          IF FirstBad(inp) # 0
          THEN ReturnErr("collapse_ranges_fuzzy", inp, g,
                         iprange_to_range(inp[FirstBad(inp)]).err)
          ELSE StartFor("collapse_ranges_fuzzy", inp, g,
                        collapse_ranges_fuzzy_merged(inp, g))

\* the index of the first tuple of inp that IpRange::new rejects, 0 if none
FirstBadTuple(inp) ==
    LET bad == {i \in 1..Len(inp) : IpRange_new(inp[i][1], inp[i][2]).err # "none"}
    IN  IF bad = {} THEN 0 ELSE CHOOSE i \in bad : \A j \in bad : i <= j

NewRange(t) == IpRange_new(t[1], t[2]).range

\* collapse_ranges_tuples: every tuple goes through IpRange::new, the first
\* error is returned, otherwise collapse_ranges runs on the IpRanges
CollapseRangesTuples ==
    /\ pc = "idle"
    /\ \E inp \in SeqsUpTo(IpAddrs \X IpAddrs, MaxInput) :
          IF FirstBadTuple(inp) # 0
          THEN ReturnErr("collapse_ranges_tuples", inp, 0,
                         IpRange_new(inp[FirstBadTuple(inp)][1],
                                     inp[FirstBadTuple(inp)][2]).err)
          ELSE StartFor("collapse_ranges_tuples", inp, 0,
                        collapse_ranges_merged(Map(NewRange, inp)))

\* a direct call of range_to_cidrs on a well-formed Range
RangeToCidrs ==
    /\ pc = "idle"
    /\ \E r \in Ranges : StartFor("range_to_cidrs", <<r>>, 0, <<r>>)

(* ----------------------- the merges, called directly ----------------- *)

\* the list is sorted by cmp_key, as sort_by leaves it
IsSorted(rs) == \A i \in 1..(Len(rs) - 1) : ~KeyLess(cmp_key(rs[i + 1]), cmp_key(rs[i]))

\* the state in which a merge has returned its list
Merged(name, inp, g, result) ==
    /\ pc' = "done"
    /\ entry' = name
    /\ input' = inp
    /\ max_gap' = g
    /\ todo' = result
    /\ out' = <<>>
    /\ rtc' = NoFrame
    /\ err' = "none"
    /\ UNCHANGED ivars

\* merge_ranges on a sorted list of up to MaxMerge well-formed Ranges
MergeRanges ==
    /\ pc = "idle"
    /\ \E k \in 0..MaxMerge : \E sorted \in [1..k -> Ranges] :
          /\ IsSorted(sorted)
          /\ Merged("merge_ranges", sorted, 0, merge_ranges(sorted))

\* merge_ranges_fuzzy on a list that is sorted and merged: one that
\* merge_ranges returns
MergeRangesFuzzy ==
    /\ pc = "idle"
    /\ \E k \in 0..MaxMerge : \E merged \in [1..k -> Ranges] :
          /\ IsSorted(merged)
          /\ merge_ranges(merged) = merged
          /\ \E g \in Gaps : Merged("merge_ranges_fuzzy", merged, g, merge_ranges_fuzzy(merged, g))

\* a Cidr's prefix is a public u8: values above the width can be stored
AnyCidrs ==
    [addr : V4Addrs, prefix : 0..(IPV4_BITS + 1)]
    \cup [addr : V6Addrs, prefix : 0..(IPV6_BITS + 1)]

\* cidr_to_range on a Cidr, its prefix any that the u8 field can hold here
CidrToRange ==
    /\ pc = "idle"
    /\ \E c \in AnyCidrs : Merged("cidr_to_range", <<c>>, 0, <<cidr_to_range(c)>>)

(* ------------------------ the decomposition loops --------------------- *)

\* `for r in merged`: range_to_cidrs(r) is called; the full address space
\* returns at once, every other range enters the while loop
ForNext ==
    /\ pc = "for"
    /\ todo # <<>>
    /\ LET r == Head(todo) IN
         IF full_space(r)
         THEN /\ out' = Append(out, [addr |-> UNSPECIFIED, prefix |-> 0])
              /\ todo' = Tail(todo)
              /\ UNCHANGED <<pc, rtc>>
         ELSE /\ rtc' = [fam |-> r.fam, start |-> r.beg, end |-> r.end, out |-> <<>>]
              /\ pc' = "while"
              /\ UNCHANGED <<todo, out>>
    /\ UNCHANGED <<entry, input, max_gap, err>>
    /\ UNCHANGED ivars

\* one iteration of `while start <= end`: a block is pushed, then the loop
\* breaks (v6, prefix 0) or start advances
WhileStep ==
    /\ pc = "while"
    /\ rtc.start <= rtc.end
    /\ Len(rtc.out) < MaxBlocks
    /\ LET bits == BitsOf(rtc.fam)
           prefix == block_prefix(bits, rtc.start, rtc.end)
           pushed == Append(rtc.out, [addr |-> int_to_ip(rtc.fam, rtc.start),
                                      prefix |-> prefix])
       IN  IF bits = IPV6_BITS /\ prefix = 0
           THEN /\ out' = out \o pushed
                /\ todo' = Tail(todo)
                /\ rtc' = NoFrame
                /\ pc' = "for"
           ELSE /\ rtc' = [rtc EXCEPT !.out = pushed,
                                      !.start = advance(bits, rtc.start, prefix)]
                /\ UNCHANGED <<pc, todo, out>>
    /\ UNCHANGED <<entry, input, max_gap, err>>
    /\ UNCHANGED ivars

\* the loop condition fails: range_to_cidrs returns and `out` is extended
WhileExit ==
    /\ pc = "while"
    /\ rtc.start > rtc.end
    /\ out' = out \o rtc.out
    /\ todo' = Tail(todo)
    /\ rtc' = NoFrame
    /\ pc' = "for"
    /\ UNCHANGED <<entry, input, max_gap, err>>
    /\ UNCHANGED ivars

\* the loop goes on when the Vec cannot grow any more: the allocation fails
\* and the process aborts; the entry point never returns
WhileAbort ==
    /\ pc = "while"
    /\ rtc.start <= rtc.end
    /\ Len(rtc.out) >= MaxBlocks
    /\ pc' = "aborted"
    /\ UNCHANGED <<entry, input, max_gap, todo, out, rtc, err>>
    /\ UNCHANGED ivars

\* every merged range has been decomposed: the entry point returns `out`
Return ==
    /\ pc = "for"
    /\ todo = <<>>
    /\ pc' = "done"
    /\ UNCHANGED <<entry, input, max_gap, todo, out, rtc, err>>
    /\ UNCHANGED ivars

(* ------------------------------ iterators ----------------------------- *)

\* Option<IpAddr>: None and Some(ip)
None == <<>>
Some(ip) == <<ip>>

\* Range::len
Range_len(r) ==
    LET diff == saturating_sub(r.end, r.beg)
    IN  IF diff = U128_MAX THEN U128_MAX ELSE saturating_add(diff, 1)

\* Cidr::len without the case of the whole v6 space: the shift by the full
\* width, its amount wrapped as a release build wraps it
Cidr_len_no_sentinel(c) ==
    2^(saturating_sub(BitsOf(c.addr.fam), c.prefix) % U128_BITS)

\* Cidr::len
Cidr_len(c) ==
    LET bits == BitsOf(c.addr.fam)
        host_bits == saturating_sub(bits, c.prefix)
    IN  IF bits = IPV6_BITS /\ host_bits = IPV6_BITS THEN U128_MAX ELSE shl1(host_bits)

\* no iterator was made: the debug_assert_eq! of CidrIterator::new panicked
Panicked == [fam |-> "panicked", current |-> 0, end |-> 0]

\* CidrIterator::new, reached through Cidr::iter and Cidr::into_iter; a build
\* with debug assertions panics when the two lengths differ, a release build
\* goes on
CidrIter ==
    /\ it = NoIter
    /\ \E c \in AnyCidrs :
          /\ cidr' = c
          /\ LET range == cidr_to_range(c)
                 made == [fam |-> range.fam, current |-> range.beg, end |-> range.end]
             IN  it' \in IF Range_len(range) = Cidr_len(c) THEN {made} ELSE {made, Panicked}
    /\ got' = <<>>
    /\ UNCHANGED <<cvars, tvars, rvars, pvars>>

\* CidrIterator::next
CidrNext ==
    /\ it.fam \in IpFam
    /\ Len(got) < MaxNext
    /\ IF it.current > it.end
       THEN /\ got' = Append(got, None)
            /\ it' = it
       ELSE /\ got' = Append(got, Some(int_to_ip(it.fam, it.current)))
            /\ it' = [it EXCEPT !.current = saturating_add(it.current, 1)]
    /\ UNCHANGED <<cidr, cvars, tvars, rvars, pvars>>

\* IpRange::new on any two addresses, which arg keeps
IpRangeNew ==
    /\ rnew = NoRange
    /\ call = "none"
    /\ \E beg \in IpAddrs, end \in IpAddrs :
          /\ rnew' = IpRange_new(beg, end)
          /\ arg' = [text |-> <<>>,
                     shape |-> [kind |-> "pair", a |-> beg, b |-> end, n |-> 0]]
    /\ UNCHANGED <<rit, rgot, prev, cidr, it, got, cvars, tvars, call, checks, res>>

\* IpRange::iter, and IpRange::into_iter through it: a fresh iterator of the
\* IpRange, which is read and not written
IpRangeIter ==
    /\ rnew.err = "none"
    /\ rit' = [current |-> rnew.range.beg, end |-> rnew.range.end, done |-> FALSE]
    /\ prev' = rgot
    /\ rgot' = <<>>
    /\ UNCHANGED <<rnew, cidr, it, got, cvars, tvars, pvars>>

\* IpRangeIterator::next with the `done` flag never set
IpRangeIterator_next_no_done(i) ==
    IF i.done THEN [item |-> None, it |-> i]
    ELSE IF i.current = i.end THEN [item |-> Some(i.current), it |-> i]
    ELSE [item |-> Some(i.current),
          it |-> [i EXCEPT !.current = int_to_ip(i.current.fam, saturating_add(i.current.v, 1))]]

\* IpRangeIterator::next: the item returned and the iterator after the call
IpRangeIterator_next(i) ==
    IF i.done THEN [item |-> None, it |-> i]
    ELSE IF i.current = i.end THEN [item |-> Some(i.current), it |-> [i EXCEPT !.done = TRUE]]
    ELSE [item |-> Some(i.current),
          it |-> [i EXCEPT !.current =
                      IF i.current.fam = "V4"
                      THEN [fam |-> "V4", v |-> Min(i.current.v + 1, U32_MAX)]
                      ELSE [fam |-> "V6", v |-> saturating_add(i.current.v, 1)]]]

\* a call of next() on the IpRangeIterator
IpRangeNext ==
    /\ rit # NoRangeIter
    /\ Len(rgot) < MaxNext
    /\ rgot' = Append(rgot, IpRangeIterator_next(rit).item)
    /\ rit' = IpRangeIterator_next(rit).it
    /\ UNCHANGED <<rnew, prev, cidr, it, got, cvars, tvars, pvars>>

(* -------------------------------- text -------------------------------- *)

\* A &str is a sequence of one-character strings.  The text of an address is
\* scaled with its width: a v4 address is IPV4_BITS one-bit octets joined by
\* ".", a v6 address IPV6_BITS one-bit groups joined by ":" (no "::" short
\* form).

\* the largest IPv4 octet (255 in the code), scaled
OCTET_MAX == 1
\* the largest IPv6 group (65535 in the code), scaled
HEXTET_MAX == 1
\* the most addresses a call may list (65536 in the code), scaled: the whole v4
\* space is not above it, half the v6 space is
MAX_RANGE_SIZE == 4
\* u8::MAX, the largest prefix a text can give: 255 = 2 * 128 - 1
U8_MAX == 2 * IPV6_BITS - 1

DASH == "-"
SLASH == "/"
IP_DELIMS == <<".", ":">>

Digits == <<"0", "1", "2", "3", "4", "5", "6", "7", "8", "9">>

IsDigit(ch) == \E i \in DOMAIN Digits : Digits[i] = ch
DigitVal(ch) == (CHOOSE i \in DOMAIN Digits : Digits[i] = ch) - 1
AllDigits(s) == s # <<>> /\ \A i \in DOMAIN s : IsDigit(s[i])

RECURSIVE NatVal(_, _)
\* the number a string of digits writes in the radix
NatVal(s, radix) ==
    IF s = <<>> THEN 0
    ELSE NatVal(SubSeq(s, 1, Len(s) - 1), radix) * radix + DigitVal(s[Len(s)])

RECURSIVE to_string(_)
\* Display of an unsigned integer
to_string(n) ==
    IF n < 10 THEN <<Digits[n + 1]>>
    ELSE to_string(n \div 10) \o <<Digits[(n % 10) + 1]>>

\* str::contains of a one-character pattern
contains(s, ch) == \E i \in DOMAIN s : s[i] = ch

RECURSIVE split(_, _)
\* str::split(ch).collect()
split(s, ch) ==
    IF ~contains(s, ch) THEN <<s>>
    ELSE LET i == CHOOSE k \in DOMAIN s : s[k] = ch /\ \A j \in 1..(k - 1) : s[j] # ch
         IN  <<SubSeq(s, 1, i - 1)>> \o split(SubSeq(s, i + 1, Len(s)), ch)

RECURSIVE trim(_)
\* str::trim
trim(s) ==
    IF s # <<>> /\ s[1] = " " THEN trim(Tail(s))
    ELSE IF s # <<>> /\ s[Len(s)] = " " THEN trim(SubSeq(s, 1, Len(s) - 1))
    ELSE s

\* str::parse::<u8>() and ::<u32>(): an optional "+", then decimal digits, the
\* value not above the type's largest; -1 stands for Err
parse_uint(s, max) ==
    LET d == IF s # <<>> /\ s[1] = "+" THEN Tail(s) ELSE s
    IN  IF AllDigits(d) /\ NatVal(d, 10) <= max THEN NatVal(d, 10) ELSE -1

\* a decimal octet without a leading zero, a group of one to four hex digits
OctetOk(part) ==
    AllDigits(part) /\ (Len(part) = 1 \/ part[1] # "0") /\ NatVal(part, 10) <= OCTET_MAX
GroupOk(part) == AllDigits(part) /\ Len(part) <= 4 /\ NatVal(part, 16) <= HEXTET_MAX

RECURSIVE PartsVal(_, _, _)
\* the address whose octets or groups, the highest first, are the parts
PartsVal(parts, max, radix) ==
    IF parts = <<>> THEN 0
    ELSE PartsVal(SubSeq(parts, 1, Len(parts) - 1), max, radix) * (max + 1)
         + NatVal(parts[Len(parts)], radix)

\* str::parse::<IpAddr>(): the text is not trimmed
parse_IpAddr(s) ==
    LET o == split(s, IP_DELIMS[1])
        g == split(s, IP_DELIMS[2])
    IN  IF Len(o) = IPV4_BITS /\ \A i \in DOMAIN o : OctetOk(o[i])
        THEN [ok |-> TRUE, ip |-> [fam |-> "V4", v |-> PartsVal(o, OCTET_MAX, 10)]]
        ELSE IF Len(g) = IPV6_BITS /\ \A i \in DOMAIN g : GroupOk(g[i])
        THEN [ok |-> TRUE, ip |-> [fam |-> "V6", v |-> PartsVal(g, HEXTET_MAX, 16)]]
        ELSE [ok |-> FALSE, ip |-> UNSPECIFIED]

RECURSIVE fmt_parts(_, _, _, _)
fmt_parts(v, n, max, delim) ==
    IF n = 1 THEN to_string(v % (max + 1))
    ELSE fmt_parts(v \div (max + 1), n - 1, max, delim) \o <<delim>> \o to_string(v % (max + 1))

\* Display of an IpAddr
fmt_IpAddr(ip) ==
    IF ip.fam = "V4" THEN fmt_parts(ip.v, IPV4_BITS, OCTET_MAX, IP_DELIMS[1])
    ELSE fmt_parts(ip.v, IPV6_BITS, HEXTET_MAX, IP_DELIMS[2])

\* Display of a Cidr
fmt_Cidr(c) == fmt_IpAddr(c.addr) \o <<SLASH>> \o to_string(c.prefix)

\* FromStr of a Cidr that stores the network address of the block
Cidr_from_str_network(s) ==
    LET parts == split(s, SLASH)
        a == parse_IpAddr(trim(parts[1]))
        prefix == parse_uint(trim(parts[2]), U8_MAX)
    IN  IF Len(parts) = 2 /\ a.ok /\ prefix # -1 /\ prefix <= BitsOf(a.ip.fam)
        THEN [ok |-> TRUE,
              cidr |-> [addr |-> [fam |-> a.ip.fam,
                                  v |-> cidr_to_range([addr |-> a.ip, prefix |-> prefix]).beg],
                        prefix |-> prefix]]
        ELSE [ok |-> FALSE, cidr |-> NoCidr]

\* FromStr of a Cidr: Ok with the Cidr, or Err
Cidr_from_str(s) ==
    LET bad == [ok |-> FALSE, cidr |-> NoCidr]
    IN  IF ~contains(s, SLASH)
        THEN LET a == parse_IpAddr(trim(s))
             IN  IF a.ok THEN [ok |-> TRUE, cidr |-> ip_to_host_cidr(a.ip)] ELSE bad
        ELSE LET parts == split(s, SLASH)
                 a == parse_IpAddr(trim(parts[1]))
                 prefix == parse_uint(trim(parts[2]), U8_MAX)
             IN  IF Len(parts) # 2 THEN bad
                 ELSE IF ~a.ok THEN bad
                 ELSE IF prefix = -1 THEN bad
                 ELSE IF prefix > BitsOf(a.ip.fam) THEN bad
                 ELSE [ok |-> TRUE, cidr |-> [addr |-> a.ip, prefix |-> prefix]]

\* str::parse::<IpNet>() of the ipnet crate: address, "/", a prefix of decimal
\* digits not above the width; host bits are kept
parse_IpNet(s) ==
    LET parts == split(s, SLASH)
        a == parse_IpAddr(parts[1])
        digits == parts[2]
    IN  IF /\ Len(parts) = 2
           /\ a.ok
           /\ AllDigits(digits)
           /\ Len(digits) <= Len(to_string(BitsOf(a.ip.fam)))
           /\ NatVal(digits, 10) <= BitsOf(a.ip.fam)
        THEN [ok |-> TRUE, addr |-> a.ip, prefix |-> NatVal(digits, 10)]
        ELSE [ok |-> FALSE, addr |-> UNSPECIFIED, prefix |-> 0]

\* every address of the block, the network and the broadcast address included
IpNet_hosts_all(net) ==
    LET r == cidr_to_range([addr |-> net.addr, prefix |-> net.prefix])
    IN  [i \in 1..(r.end - r.beg + 1) |-> [fam |-> net.addr.fam, v |-> r.beg + i - 1]]

\* IpNet::hosts() of the ipnet crate, collected: every address of the block,
\* without the network and the broadcast address for a v4 prefix below 31
IpNet_hosts(net) ==
    LET r == cidr_to_range([addr |-> net.addr, prefix |-> net.prefix])
        usable == net.addr.fam = "V4" /\ net.prefix < IPV4_BITS - 1
        first == IF usable THEN r.beg + 1 ELSE r.beg
        last == IF usable THEN r.end - 1 ELSE r.end
    IN  [i \in 1..(last - first + 1) |-> [fam |-> net.addr.fam, v |-> first + i - 1]]

(* ---------------------------- addresses.rs ---------------------------- *)

\* Result<_, AddressError>, and a panic in place of a result
Ok(val) == [kind |-> "Ok", val |-> val, err |-> <<>>]
Err(e) == [kind |-> "Err", val |-> <<>>, err |-> e]
Panic == [kind |-> "Panic", val |-> <<>>, err |-> <<>>]

\* the guard with the count that equals MAX_RANGE_SIZE refused as well
too_large_or_equal(count) == count >= MAX_RANGE_SIZE

\* `count > MAX_RANGE_SIZE`
too_large(count) == count > MAX_RANGE_SIZE

\* the short-form end taken as the whole address, no octet or group of the
\* start copied
parse_short_range_end_whole(beg_ip, end_str) ==
    LET end_val == parse_uint(end_str, U32_MAX)
    IN  IF end_val = -1 THEN Err(<<"InvalidRangeEndVal", end_str>>)
        ELSE IF beg_ip.fam = "V4"
        THEN IF end_val > OCTET_MAX THEN Err(<<"InvalidV4Octet", end_val>>)
             ELSE Ok([fam |-> "V4", v |-> end_val])
        ELSE IF end_val > HEXTET_MAX THEN Err(<<"InvalidV6Hextet", end_val>>)
             ELSE Ok([fam |-> "V6", v |-> end_val])

\* parse_short_range_end: end_val is a u32; the last octet or group of the
\* start address is replaced by it
parse_short_range_end(beg_ip, end_str) ==
    LET end_val == parse_uint(end_str, U32_MAX)
    IN  IF end_val = -1 THEN Err(<<"InvalidRangeEndVal", end_str>>)
        ELSE IF beg_ip.fam = "V4"
        THEN IF end_val > OCTET_MAX THEN Err(<<"InvalidV4Octet", end_val>>)
             ELSE Ok([fam |-> "V4", v |-> beg_ip.v - (beg_ip.v % (OCTET_MAX + 1)) + end_val])
        ELSE IF end_val > HEXTET_MAX THEN Err(<<"InvalidV6Hextet", end_val>>)
             ELSE Ok([fam |-> "V6", v |-> beg_ip.v - (beg_ip.v % (HEXTET_MAX + 1)) + end_val])

\* IpRange::new as a Result
IpRange_new_result(beg, end) ==
    IF IpRange_new(beg, end).err = "none" THEN Ok(IpRange_new(beg, end).range)
    ELSE Err(IpRange_new(beg, end).err)

\* parse_ip_range
parse_ip_range(s) ==
    LET parts == split(s, DASH)
        beg_str == trim(parts[1])
        end_str == trim(parts[2])
        beg_ip == parse_IpAddr(beg_str)
        full == parse_IpAddr(end_str)
        short == parse_short_range_end(beg_ip.ip, end_str)
    IN  IF Len(parts) # 2 THEN Err(<<"InvalidRangeFmt", s>>)
        ELSE IF ~beg_ip.ok THEN Err(<<"InvalidRangeBegIp", beg_str>>)
        ELSE IF contains(end_str, IP_DELIMS[1]) \/ contains(end_str, IP_DELIMS[2])
        THEN IF ~full.ok THEN Err(<<"InvalidRangeEndIp", end_str>>)
             ELSE IpRange_new_result(beg_ip.ip, full.ip)
        ELSE IF short.kind = "Err" THEN short
        ELSE IpRange_new_result(beg_ip.ip, short.val)

\* the count of generate_ip_range without the end address
span_count_exclusive(start, end) == end.v - start.v

\* generate_ip_range lines 146 and 163: the count of start..=end, a usize of 64
\* bits for v4, a saturating u128 for v6
span_count(start, end) ==
    IF start.fam = "V4" THEN (end.v - start.v) + 1
    ELSE saturating_add(saturating_sub(end.v, start.v), 1)

\* generate_ip_range
generate_ip_range(start, end) ==
    IF start.fam # end.fam THEN Err(<<"Mismatch", start, end>>)
    ELSE IF start.v > end.v THEN Err(<<"RangeOrder", start, end>>)
    ELSE IF too_large(span_count(start, end))
    THEN Err(<<"RangeTooLarge", span_count(start, end)>>)
    ELSE Ok([i \in 1..(end.v - start.v + 1) |-> [fam |-> start.fam, v |-> start.v + i - 1]])

\* parse_ip_or_range lines 30-45, the text being a CIDR: `1u128 << (bits -
\* prefix_len)` shifts by the whole width of u128 for the v6 prefix 0, which
\* panics in a build that checks overflow and wraps the amount in one that
\* does not
expand_net(network, chk) ==
    LET bits == BitsOf(network.addr.fam)
        shift == bits - network.prefix
        num_addrs == 2^(shift % U128_BITS)
        hosts == IpNet_hosts(network)
    IN  IF shift >= U128_BITS /\ chk THEN Panic
        ELSE IF too_large(num_addrs) THEN Err(<<"RangeTooLarge", num_addrs>>)
        ELSE IF hosts = <<>> THEN Ok(<<network.addr>>)
        ELSE Ok(hosts)

\* parse_ip_or_range, in a build that checks overflow (chk) or does not
parse_ip_or_range(s, chk) ==
    IF parse_IpAddr(s).ok THEN Ok(<<parse_IpAddr(s).ip>>)
    ELSE IF parse_IpNet(s).ok THEN expand_net(parse_IpNet(s), chk)
    ELSE IF contains(s, DASH)
    THEN IF parse_ip_range(s).kind = "Err" THEN parse_ip_range(s)
         ELSE generate_ip_range(parse_ip_range(s).val.beg, parse_ip_range(s).val.end)
    ELSE Err(<<"Invalid", s>>)

\* What a text was written from: kind, two addresses and a number.
\*   "ip" a          "cidr" a/n        "range" a-b       "spaced" a - b
\*   "short" a-n     "plus" a-+n       "word" a-x        "three" a-b-a
\*   "nobeg" x-a     "noend" a-9.9     "slashx" a/x      "empty"
\*   "padip" a with a blank before it     "padcidr" a / n with blanks
\*   "pluscidr" a/+n  "zerocidr" a/0n
Shapes ==
    [kind : {"ip", "word", "nobeg", "noend", "slashx"}, a : IpAddrs, b : {UNSPECIFIED}, n : {0}]
    \cup [kind : {"cidr"}, a : IpAddrs, b : {UNSPECIFIED}, n : 0..(U8_MAX + 1)]
    \cup [kind : {"range", "spaced", "three"}, a : IpAddrs, b : IpAddrs, n : {0}]
    \cup [kind : {"short", "plus"}, a : IpAddrs, b : {UNSPECIFIED}, n : 0..(U32_MAX + 1)]
    \cup [kind : {"empty"}, a : {UNSPECIFIED}, b : {UNSPECIFIED}, n : {0}]

\* the text of a shape
TextOf(sh) ==
    CASE sh.kind = "ip" -> fmt_IpAddr(sh.a)
      [] sh.kind = "cidr" -> fmt_IpAddr(sh.a) \o <<SLASH>> \o to_string(sh.n)
      [] sh.kind = "range" -> fmt_IpAddr(sh.a) \o <<DASH>> \o fmt_IpAddr(sh.b)
      [] sh.kind = "spaced" -> fmt_IpAddr(sh.a) \o <<" ", DASH, " ">> \o fmt_IpAddr(sh.b)
      [] sh.kind = "short" -> fmt_IpAddr(sh.a) \o <<DASH>> \o to_string(sh.n)
      [] sh.kind = "plus" -> fmt_IpAddr(sh.a) \o <<DASH, "+">> \o to_string(sh.n)
      [] sh.kind = "word" -> fmt_IpAddr(sh.a) \o <<DASH, "x">>
      [] sh.kind = "three" ->
            fmt_IpAddr(sh.a) \o <<DASH>> \o fmt_IpAddr(sh.b) \o <<DASH>> \o fmt_IpAddr(sh.a)
      [] sh.kind = "nobeg" -> <<"x", DASH>> \o fmt_IpAddr(sh.a)
      [] sh.kind = "noend" -> fmt_IpAddr(sh.a) \o <<DASH, "9", ".", "9">>
      [] sh.kind = "slashx" -> fmt_IpAddr(sh.a) \o <<SLASH, "x">>
      [] sh.kind = "padip" -> <<" ">> \o fmt_IpAddr(sh.a)
      [] sh.kind = "pluscidr" -> fmt_IpAddr(sh.a) \o <<SLASH, "+">> \o to_string(sh.n)
      [] sh.kind = "zerocidr" -> fmt_IpAddr(sh.a) \o <<SLASH, "0">> \o to_string(sh.n)
      [] sh.kind = "padcidr" ->
            <<" ">> \o fmt_IpAddr(sh.a) \o <<" ", SLASH, " ">> \o to_string(sh.n) \o <<" ">>
      [] OTHER -> <<>>

\* a text with what it was written from
TokenOf(sh) == [text |-> TextOf(sh), shape |-> sh]

\* The tokens handed to collapse_strings: addresses, CIDRs with a prefix up
\* to one above the width, short ranges, CIDRs with a word for a prefix, and
\* addresses and host CIDRs with blanks.
Tokens ==
    [kind : {"ip", "slashx", "padip"}, a : IpAddrs, b : {UNSPECIFIED}, n : {0}]
    \cup [kind : {"cidr"}, a : V4Addrs, b : {UNSPECIFIED}, n : 0..(IPV4_BITS + 1)]
    \cup [kind : {"cidr"}, a : V6Addrs, b : {UNSPECIFIED}, n : 0..(IPV6_BITS + 1)]
    \cup [kind : {"padcidr"}, a : V4Addrs, b : {UNSPECIFIED}, n : {IPV4_BITS}]
    \cup [kind : {"padcidr"}, a : V6Addrs, b : {UNSPECIFIED}, n : {IPV6_BITS}]
    \cup [kind : {"short"}, a : IpAddrs, b : {UNSPECIFIED}, n : {OCTET_MAX}]

\* every token read by FromStr of a Cidr, which trims a bare address
token_cidr_trimmed(s) == Cidr_from_str(s)

\* collapse_strings lines 64-71: the Cidr of one token, if it has one
token_cidr(s) ==
    IF contains(s, SLASH) THEN Cidr_from_str(s)
    ELSE IF parse_IpAddr(s).ok
    THEN [ok |-> TRUE, cidr |-> ip_to_host_cidr(parse_IpAddr(s).ip)]
    ELSE [ok |-> FALSE, cidr |-> NoCidr]

\* collapse_strings lines 63-72: the Cidrs pushed for the tokens, in order
strings_cidrs(inp) ==
    LET read == [i \in 1..Len(inp) |-> token_cidr(inp[i].text)]
        kept == SelectSeq(read, LAMBDA r : r.ok)
    IN  [i \in 1..Len(kept) |-> kept[i].cidr]

\* collapse_strings: the tokens that parse go to collapse_cidrs
CollapseStrings ==
    /\ pc = "idle"
    /\ \E shs \in SeqsUpTo(Tokens, MaxInput), g \in Gaps :
          StartFor("collapse_strings", [i \in 1..Len(shs) |-> TokenOf(shs[i])], g,
                   collapse_cidrs_merged(strings_cidrs([i \in 1..Len(shs) |-> TokenOf(shs[i])]), g))

\* The texts handed to FromStr of a Cidr: CIDRs with every u8 prefix and one
\* above, bare addresses, CIDRs with blanks, with a "+" or a "0" before the
\* prefix, and with a word for a prefix.
CidrTexts ==
    [kind : {"ip", "padip", "slashx"}, a : IpAddrs, b : {UNSPECIFIED}, n : {0}]
    \cup [kind : {"cidr"}, a : IpAddrs, b : {UNSPECIFIED}, n : 0..(U8_MAX + 1)]
    \cup [kind : {"padcidr", "pluscidr", "zerocidr"}, a : IpAddrs, b : {UNSPECIFIED},
          n : 0..(IPV6_BITS + 1)]

\* str::parse::<Cidr>() on a text
CidrFromStr ==
    /\ call = "none"
    /\ \E sh \in CidrTexts :
          /\ call' = "Cidr::from_str"
          /\ arg' = TokenOf(sh)
          /\ res' = IF Cidr_from_str(TextOf(sh)).ok THEN Ok(Cidr_from_str(TextOf(sh)).cidr)
                    ELSE Err(<<"String">>)
    /\ UNCHANGED <<checks, cvars, tvars, cidr, it, got, rvars>>

\* to_string of the Cidr that was parsed
CidrToString ==
    /\ call = "Cidr::from_str"
    /\ res.kind = "Ok"
    /\ call' = "Cidr::fmt"
    /\ cidr' = res.val
    /\ res' = Ok(fmt_Cidr(res.val))
    /\ UNCHANGED <<arg, checks, cvars, tvars, it, got, rvars>>

\* parse_ip_or_range on a text, in either build
ParseIpOrRange ==
    /\ call = "none"
    /\ rnew = NoRange
    /\ \E sh \in Shapes, chk \in BOOLEAN :
          /\ call' = "parse_ip_or_range"
          /\ arg' = [text |-> TextOf(sh), shape |-> sh]
          /\ checks' = chk
          /\ res' = parse_ip_or_range(TextOf(sh), chk)
    /\ UNCHANGED <<cvars, tvars, cidr, it, got, rvars>>

\* parse_ip_range on a text
ParseIpRange ==
    /\ call = "none"
    /\ rnew = NoRange
    /\ \E sh \in Shapes :
          /\ call' = "parse_ip_range"
          /\ arg' = [text |-> TextOf(sh), shape |-> sh]
          /\ res' = parse_ip_range(TextOf(sh))
    /\ UNCHANGED <<checks, cvars, tvars, cidr, it, got, rvars>>

\* generate_ip_range on any two addresses
GenerateIpRange ==
    /\ call = "none"
    /\ rnew = NoRange
    /\ \E start \in IpAddrs, end \in IpAddrs :
          /\ call' = "generate_ip_range"
          /\ arg' = [text |-> <<>>,
                     shape |-> [kind |-> "pair", a |-> start, b |-> end, n |-> 0]]
          /\ res' = generate_ip_range(start, end)
    /\ UNCHANGED <<checks, cvars, tvars, cidr, it, got, rvars>>

(* -------------------------- lib.rs: normalize_path -------------------- *)

\* is_suspicious_char: of NUL, newline, carriage return, backslash and the
\* control characters, those that can be written here
is_suspicious_char(c) == c \in {"\n", "\r", "\\", "\t", "\f"}

\* is_suspicious_strict, but for the double quote and the backquote, which
\* cannot be written here
is_suspicious_strict(c) ==
    c \in {"*", "?", "'", "<", ">", "|", ";", "&", "!", "$",
           "(", ")", "[", "]", "{", "}"}

\* normalize_path lines 225-233: the characters kept
sanitized(path, strict) ==
    SelectSeq(path, LAMBDA c : ~(IF strict THEN is_suspicious_strict(c)
                                           ELSE is_suspicious_char(c)))

\* the separator of a Unix path
SEP == "/"

\* Path::components() of a Unix path: RootDir for a leading separator, CurDir
\* for a leading ".", ParentDir for "..", Normal for any other name; empty
\* names and every other "." are left out
components(s) ==
    LET names == split(s, SEP)
        rooted == s # <<>> /\ s[1] = SEP
        comp(i) ==
            IF names[i] = <<>> THEN <<>>
            ELSE IF names[i] = <<".">>
            THEN IF i = 1 THEN <<[kind |-> "CurDir", name |-> names[i]]>> ELSE <<>>
            ELSE IF names[i] = <<".", ".">> THEN <<[kind |-> "ParentDir", name |-> names[i]]>>
            ELSE <<[kind |-> "Normal", name |-> names[i]]>>
        flat[i \in 0..Len(names)] == IF i = 0 THEN <<>> ELSE flat[i - 1] \o comp(i)
    IN  (IF rooted THEN <<[kind |-> "RootDir", name |-> <<SEP>>]>> ELSE <<>>)
        \o flat[Len(names)]

RECURSIVE for_components(_, _, _)
\* normalize_path lines 235-270: the loop over the components
for_components(todo_c, parts, is_absolute) ==
    IF todo_c = <<>> THEN parts
    ELSE LET c == Head(todo_c)
             rest == Tail(todo_c)
         IN  CASE c.kind = "CurDir" -> for_components(rest, parts, is_absolute)
               [] c.kind = "RootDir" -> for_components(rest, <<c>>, TRUE)
               [] c.kind = "Normal" ->
                     IF \A i \in DOMAIN c.name : c.name[i] = "."
                     THEN for_components(rest, parts, is_absolute)
                     ELSE for_components(rest, Append(parts, c), is_absolute)
               [] c.kind = "ParentDir" ->
                     IF (~is_absolute \/ parts # <<>>) /\ parts # <<>>
                           /\ parts[Len(parts)].kind \in {"Normal", "ParentDir", "CurDir"}
                     THEN for_components(rest, SubSeq(parts, 1, Len(parts) - 1), is_absolute)
                     ELSE for_components(rest, parts, is_absolute)

RECURSIVE PathBuf_from_iter(_)
\* PathBuf::from_iter: the components pushed one after the other
PathBuf_from_iter(parts) ==
    IF parts = <<>> THEN <<>>
    ELSE LET buf == PathBuf_from_iter(SubSeq(parts, 1, Len(parts) - 1))
             c == parts[Len(parts)]
         IN  IF c.kind = "RootDir" THEN c.name
             ELSE IF buf = <<>> \/ buf[Len(buf)] = SEP THEN buf \o c.name
             ELSE buf \o <<SEP>> \o c.name

\* normalize_path
normalize_path(path, strict) ==
    PathBuf_from_iter(for_components(components(sanitized(path, strict)), <<>>, FALSE))

\* the characters the paths are written with
PathChars == {"a", ".", SEP, "\n", "\\", "*", "$"}

\* normalize_path on a path of up to MaxPath characters, strict or not
NormalizePath ==
    /\ call = "none"
    /\ \E path \in SeqsUpTo(PathChars, MaxPath), strict \in BOOLEAN :
          /\ call' = "normalize_path"
          /\ arg' = [path |-> path, strict |-> strict]
          /\ res' = Ok(normalize_path(path, strict))
    /\ UNCHANGED <<checks, cvars, tvars, cidr, it, got, rvars>>

(* ------------------------ procinfo.rs: ProcessInfo -------------------- *)

\* all that a thread on a ProcessInfo leaves alone
others == <<cvars, cidr, it, got, rvars, pvars>>

\* u64::clamp
clamp(v, min, max) == IF v < min THEN min ELSE IF v > max THEN max ELSE v

\* mem() or cpu() is called on a thread, and calls refresh()
Call(t) ==
    /\ thr[t].pc = "idle"
    /\ thr' = [thr EXCEPT ![t].pc = "read"]
    /\ UNCHANGED <<now, inner, lock, wrote, others>>

\* refresh line 64: `self.inner.read()`, granted while no thread writes
ReadLock(t) ==
    /\ thr[t].pc = "read"
    /\ lock.writer = 0
    /\ lock' = [lock EXCEPT !.readers = @ \cup {t}]
    /\ thr' = [thr EXCEPT ![t].pc = "check"]
    /\ UNCHANGED <<now, inner, wrote, others>>

\* refresh lines 65-68: `if i.upd.elapsed() < i.ival { return; }`, and the
\* read guard is dropped either way; the thread keeps what it read
Check(t) ==
    /\ thr[t].pc = "check"
    /\ lock' = [lock EXCEPT !.readers = @ \ {t}]
    /\ thr' = [thr EXCEPT ![t] =
                  IF now - inner.upd < inner.ival THEN [Idle EXCEPT !.pc = "get"]
                  ELSE [pc |-> "write", upd |-> inner.upd, ival |-> inner.ival]]
    /\ UNCHANGED <<now, inner, wrote, others>>

\* refresh line 69: `self.inner.write()`, granted while no thread reads or
\* writes
WriteLock(t) ==
    /\ thr[t].pc = "write"
    /\ lock = [readers |-> {}, writer |-> 0]
    /\ lock' = [lock EXCEPT !.writer = t]
    /\ thr' = [thr EXCEPT ![t].pc = "refresh"]
    /\ UNCHANGED <<now, inner, wrote, others>>

\* refresh lines 70-74: the write section, `i.upd = Instant::now()` at its
\* end, and the write guard is dropped
Refresh(t) ==
    /\ thr[t].pc = "refresh"
    /\ wrote' = [by |-> t, elapsed |-> now - inner.upd, ival |-> thr[t].ival,
                raced |-> inner.upd # thr[t].upd]
    /\ inner' = [inner EXCEPT !.upd = now]
    /\ lock' = [lock EXCEPT !.writer = 0]
    /\ thr' = [thr EXCEPT ![t] = [Idle EXCEPT !.pc = "get"]]
    /\ UNCHANGED <<now, others>>

\* mem and cpu, after refresh(): `self.inner.read().mem`, and the call returns
Get(t) ==
    /\ thr[t].pc = "get"
    /\ lock.writer = 0
    /\ thr' = [thr EXCEPT ![t] = Idle]
    /\ UNCHANGED <<now, inner, lock, wrote, others>>

\* set_interval, called by any other thread
SetInterval ==
    /\ lock = [readers |-> {}, writer |-> 0]
    /\ \E min_interval \in 0..(MAX_INTERVAL_MS + 1) :
          inner' = [inner EXCEPT !.ival = clamp(min_interval, MIN_INTERVAL_MS, MAX_INTERVAL_MS)]
    /\ UNCHANGED <<now, lock, thr, wrote, others>>

\* time passes
Tick ==
    /\ now < MaxTime
    /\ now' = now + 1
    /\ UNCHANGED <<inner, lock, thr, wrote, others>>

(* --------------------------- specifications --------------------------- *)

Next == CollapseCidrs \/ CollapseIps \/ ForNext \/ WhileStep \/ WhileExit \/ WhileAbort \/ Return

\* the entry points that take CIDRs and addresses
Spec == Init /\ [][Next]_vars

NextRanges ==
    \/ CollapseRanges \/ CollapseRangesFuzzy \/ CollapseRangesTuples
    \/ ForNext \/ WhileStep \/ WhileExit \/ WhileAbort \/ Return

\* the entry points that take ranges
SpecRanges == Init /\ [][NextRanges]_vars

NextAll ==
    \/ CollapseCidrs \/ CollapseIps
    \/ CollapseRanges \/ CollapseRangesFuzzy \/ CollapseRangesTuples
    \/ ForNext \/ WhileStep \/ WhileExit \/ WhileAbort \/ Return

\* every collapse entry point that takes typed values
SpecAll == Init /\ [][NextAll]_vars

NextDecompose == RangeToCidrs \/ ForNext \/ WhileStep \/ WhileExit \/ WhileAbort \/ Return

\* range_to_cidrs alone, on every well-formed Range
SpecDecompose == Init /\ [][NextDecompose]_vars

NextIter == CidrIter \/ CidrNext

\* the iterator of a Cidr
SpecIter == Init /\ [][NextIter]_vars

NextRangeIter == IpRangeNew \/ IpRangeIter \/ IpRangeNext

\* IpRange::new and the iterator of an IpRange
SpecRangeIter == Init /\ [][NextRangeIter]_vars

NextCidrText == CidrFromStr \/ CidrToString

\* a Cidr parsed from a text and written back
SpecCidrText == Init /\ [][NextCidrText]_vars

NextMerge == MergeRanges \/ MergeRangesFuzzy

\* merge_ranges and merge_ranges_fuzzy alone
SpecMerge == Init /\ [][NextMerge]_vars

NextNormalize == CidrToRange

\* cidr_to_range alone
SpecNormalize == Init /\ [][NextNormalize]_vars

NextProc ==
    \/ \E t \in Threads : Call(t) \/ ReadLock(t) \/ Check(t) \/ WriteLock(t) \/ Refresh(t) \/ Get(t)
    \/ SetInterval
    \/ Tick

\* threads calling mem() and cpu() on one ProcessInfo
SpecProc == Init /\ [][NextProc]_vars

NextPath == NormalizePath

\* normalize_path on short paths
SpecPath == Init /\ [][NextPath]_vars

NextStrings == CollapseStrings \/ ForNext \/ WhileStep \/ WhileExit \/ WhileAbort \/ Return

\* collapse_strings on lists of tokens
SpecStrings == Init /\ [][NextStrings]_vars

NextParse == ParseIpOrRange \/ ParseIpRange \/ GenerateIpRange \/ IpRangeNew

\* the functions of addresses.rs
SpecParse == Init /\ [][NextParse]_vars

(* ------------------------ what the claims speak of -------------------- *)

\* the call has ended: it returned its list, or the process aborted
Final == pc \in {"done", "aborted"}

\* every block pushed so far, whether or not it was returned
Emitted == out \o rtc.out

\* the highest address of a family
FamMax(fam) == 2^BitsOf(fam) - 1

\* the number of addresses of a block: 2^(width - prefix)
BlockSize(c) == 2^(BitsOf(c.addr.fam) - c.prefix)

\* the addresses a block covers: those that agree with its address on the top
\* prefix bits
AddrsOf(c) ==
    {[fam |-> c.addr.fam, v |-> a] :
        a \in {x \in 0..FamMax(c.addr.fam) : x \div BlockSize(c) = c.addr.v \div BlockSize(c)}}

FirstOf(c) == (c.addr.v \div BlockSize(c)) * BlockSize(c)
LastOf(c) == FirstOf(c) + BlockSize(c) - 1

CoveredBy(cidrs) == UNION {AddrsOf(cidrs[i]) : i \in DOMAIN cidrs}

NoOverlap(cidrs) ==
    \A i, j \in DOMAIN cidrs : i < j => AddrsOf(cidrs[i]) \cap AddrsOf(cidrs[j]) = {}

\* the addresses beg..=end of a Range
RangeAddrs(r) == {[fam |-> r.fam, v |-> a] : a \in r.beg..r.end}

\* a V6 range that reaches the top of the address space without being all of it
ReachesTop(r) == r.fam = "V6" /\ r.end = U128_MAX /\ r.beg > 0

RECURSIVE MinBlocks(_, _, _)
\* the least number of prefix-aligned power-of-two blocks whose union is
\* exactly beg..=end: the block that covers beg starts at beg, is aligned and
\* fits, and the rest is covered the same way
MinBlocks(bits, beg, end) ==
    IF beg > end THEN 0
    ELSE LET sizes == {2^k : k \in {j \in 0..bits : beg % (2^j) = 0 /\ beg + 2^j - 1 <= end}}
             rest == {MinBlocks(bits, beg + sz, end) : sz \in sizes}
         IN  1 + CHOOSE m \in rest : \A n \in rest : m <= n

(* ---------------------- C2: decomposition coverage -------------------- *)

\* C2: for every well-formed Range, range_to_cidrs returns blocks whose union
\* is exactly beg..=end, and no two of the blocks overlap.
C2_DecomposeCovers ==
    (entry = "range_to_cidrs" /\ Final) =>
        /\ CoveredBy(Emitted) = RangeAddrs(input[1])
        /\ NoOverlap(Emitted)

\* the same holds of every range that does not reach the top of the V6 space
C2_ExceptTop ==
    (entry = "range_to_cidrs" /\ Final /\ ~ReachesTop(input[1])) =>
        /\ pc = "done"
        /\ CoveredBy(Emitted) = RangeAddrs(input[1])
        /\ NoOverlap(Emitted)

(* ---------------------- C3: decomposition minimality ------------------ *)

\* C3: for every well-formed Range, the number of blocks range_to_cidrs
\* returns is the least number of aligned blocks whose union is beg..=end.
C3_DecomposeMinimal ==
    (entry = "range_to_cidrs" /\ Final) =>
        Len(Emitted) = MinBlocks(BitsOf(input[1].fam), input[1].beg, input[1].end)

\* the same holds of every range that does not reach the top of the V6 space
C3_ExceptTop ==
    (entry = "range_to_cidrs" /\ Final /\ ~ReachesTop(input[1])) =>
        /\ pc = "done"
        /\ Len(Emitted) = MinBlocks(BitsOf(input[1].fam), input[1].beg, input[1].end)

(* ---------------------- C4: decomposition terminates ------------------ *)

\* C4: range_to_cidrs terminates for every well-formed Range: the process
\* never aborts in the loop, and once the block that reaches the top of the
\* address space has been pushed the loop condition is false, so that no
\* further block is pushed.
C4_DecomposeTerminates ==
    /\ pc # "aborted"
    /\ (pc = "while" /\ rtc.out # <<>> /\ LastOf(rtc.out[Len(rtc.out)]) = FamMax(rtc.fam))
          => rtc.start > rtc.end

\* the loop does end for V4 ranges that reach 255.255.255.255 and for every
\* range that does not reach the top of the V6 space
C4_ExceptTop ==
    (pc \in {"while", "aborted"} /\ ~ReachesTop(Head(todo))) =>
        /\ pc # "aborted"
        /\ (rtc.out # <<>> /\ LastOf(rtc.out[Len(rtc.out)]) = FamMax(rtc.fam))
              => rtc.start > rtc.end

(* --------------------------- C1: exact collapse ----------------------- *)

\* the call started its `for` loop and has visited no range yet
JustCalled == pc = "for" /\ out = <<>>

\* the blocks with no host bit set
CanonicalCidrs == {c \in Cidrs : c.addr.v = FirstOf(c)}

\* the maximal runs of consecutive addresses of a family in a set of addresses
RunStarts(S, fam) ==
    {a \in 0..FamMax(fam) :
        [fam |-> fam, v |-> a] \in S /\ (a = 0 \/ [fam |-> fam, v |-> a - 1] \notin S)}

RunEnd(S, fam, b) ==
    CHOOSE e \in b..FamMax(fam) :
        /\ \A x \in b..e : [fam |-> fam, v |-> x] \in S
        /\ e = FamMax(fam) \/ [fam |-> fam, v |-> e + 1] \notin S

\* some V6 run of the set reaches the top of the address space and is not the
\* whole address space
RunReachesTop(S) == [fam |-> "V6", v |-> U128_MAX] \in S /\ ~(V6Addrs \subseteq S)

\* C1: collapse_cidrs(input, 0) returns blocks that cover exactly the union of
\* the input blocks and do not overlap; when that union is one aligned block
\* (a block absorbed by another, two adjacent halves), that block alone is
\* returned.
C1_CollapseExact ==
    (entry = "collapse_cidrs" /\ max_gap = 0 /\ Final) =>
        /\ CoveredBy(Emitted) = CoveredBy(input)
        /\ NoOverlap(Emitted)
        /\ \A c \in CanonicalCidrs : CoveredBy(input) = AddrsOf(c) => Emitted = <<c>>

\* the same holds of every input that does not reach the top of the V6 space
C1_ExceptTop ==
    (entry = "collapse_cidrs" /\ max_gap = 0 /\ Final /\ ~RunReachesTop(CoveredBy(input))) =>
        /\ pc = "done"
        /\ CoveredBy(out) = CoveredBy(input)
        /\ NoOverlap(out)
        /\ \A c \in CanonicalCidrs : CoveredBy(input) = AddrsOf(c) => out = <<c>>

(* ------------------------ C5: order of the output --------------------- *)

\* V4 blocks before V6 blocks, and within a family each block starts above
\* the last address of the block before it
GroupedAscending(cidrs) ==
    \A i \in 1..(Len(cidrs) - 1) :
        \/ cidrs[i].addr.fam = "V4" /\ cidrs[i + 1].addr.fam = "V6"
        \/ /\ cidrs[i].addr.fam = cidrs[i + 1].addr.fam
           /\ FirstOf(cidrs[i + 1]) > LastOf(cidrs[i])

\* C5: the list of every collapse entry point is family-grouped and ascending.
C5_OutputOrdered == Final => GroupedAscending(Emitted)

\* the same holds of every list that is returned
C5_WhenReturned == pc = "done" => GroupedAscending(out)

(* --------------------------- C6: idempotence -------------------------- *)

RECURSIVE SumMin(_, _, _)
SumMin(S, fam, starts) ==
    IF starts = {} THEN 0
    ELSE LET b == CHOOSE x \in starts : TRUE
         IN  MinBlocks(BitsOf(fam), b, RunEnd(S, fam, b)) + SumMin(S, fam, starts \ {b})

\* the least number of aligned blocks whose union is the set of addresses S
MinCount(S) == SumMin(S, "V4", RunStarts(S, "V4")) + SumMin(S, "V6", RunStarts(S, "V6"))

\* a minimal, sorted, disjoint list of blocks
AlreadyMinimal(cidrs) ==
    /\ \A i \in DOMAIN cidrs : cidrs[i] \in CanonicalCidrs
    /\ GroupedAscending(cidrs)
    /\ Len(cidrs) = MinCount(CoveredBy(cidrs))

\* C6: collapsing with gap tolerance 0 is idempotent and order-stable: the
\* list collapse_cidrs(x, 0) returns is returned unchanged by a second call,
\* and so is every list that is already minimal, sorted and disjoint.
C6_Idempotent ==
    (entry = "collapse_cidrs" /\ max_gap = 0 /\ Final) =>
        /\ collapse_cidrs(Emitted, 0).out = Emitted
        /\ AlreadyMinimal(input) => Emitted = input

\* the same holds of every input that does not reach the top of the V6 space
C6_ExceptTop ==
    (entry = "collapse_cidrs" /\ max_gap = 0 /\ Final /\ ~RunReachesTop(CoveredBy(input))) =>
        /\ pc = "done"
        /\ collapse_cidrs(out, 0) = [ok |-> TRUE, out |-> out]
        /\ AlreadyMinimal(out)
        /\ AlreadyMinimal(input) => out = input

(* ---------------- the runs as functions and as behaviours ------------- *)

\* the call has ended: with its list, with an error, or with the process aborted
Ended == pc \in {"done", "err", "aborted"}

\* how the call ended: the error, whether it returned, the blocks pushed
Outcome == [err |-> err, ok |-> pc # "aborted", out |-> Emitted]

\* an entry point's behaviour ends as the function of its arguments says
RunsAgree ==
    Ended =>
        CASE entry = "collapse_cidrs" ->
                Outcome = [err |-> "none", ok |-> collapse_cidrs(input, max_gap).ok,
                           out |-> collapse_cidrs(input, max_gap).out]
          [] entry = "collapse_ranges" -> Outcome = collapse_ranges(input)
          [] entry = "collapse_ranges_fuzzy" -> Outcome = collapse_ranges_fuzzy(input, max_gap)
          [] entry = "range_to_cidrs" ->
                Outcome = [err |-> "none", ok |-> range_to_cidrs(input[1]).ok,
                           out |-> range_to_cidrs(input[1]).out]
          [] OTHER -> TRUE

(* ----------------------- C7: fuzzy merge monotone --------------------- *)

\* C7: for the same input and g1 <= g2, the blocks of collapse_cidrs(input, g2)
\* cover every address the blocks of collapse_cidrs(input, g1) cover; g1 = 0
\* is the exact result.
C7_FuzzyCoversMore ==
    (entry = "collapse_cidrs" /\ Final) =>
        \A g1 \in Gaps :
            g1 <= max_gap => CoveredBy(collapse_cidrs(input, g1).out) \subseteq CoveredBy(Emitted)

\* a returned result of tolerance 2 that covers addresses which the result of
\* tolerance 1, equal to the exact one, does not cover
C7_Witness ==
    /\ entry = "collapse_cidrs"
    /\ pc = "done"
    /\ max_gap = 2
    /\ CoveredBy(collapse_cidrs(input, 0).out) = CoveredBy(collapse_cidrs(input, 1).out)
    /\ CoveredBy(collapse_cidrs(input, 1).out) # CoveredBy(out)

(* ----------------------- C8: fuzzy merge and counts ------------------- *)

\* C8: for every input and every g > 0, collapse_cidrs(input, g) returns no
\* more blocks than collapse_cidrs(input, 0).
C8_FuzzyFewerBlocks ==
    (entry = "collapse_cidrs" /\ pc = "done" /\ max_gap > 0 /\ collapse_cidrs(input, 0).ok) =>
        Len(out) <= Len(collapse_cidrs(input, 0).out)

\* C8 as amended: for every input and g1 <= g2, collapse_cidrs(input, g2)
\* decomposes no more merged ranges than collapse_cidrs(input, g1); g1 = 0 is
\* the exact merge.
C8_FuzzyFewerRanges ==
    (entry = "collapse_cidrs" /\ JustCalled) =>
        \A g1 \in Gaps :
            g1 <= max_gap => Len(todo) <= Len(collapse_cidrs_merged(input, g1))

\* a call of tolerance 2 whose fuzzy pass joined two ranges that tolerance 1
\* leaves apart, and whose blocks will outnumber those of the exact result
C8_Witness ==
    /\ entry = "collapse_cidrs"
    /\ JustCalled
    /\ max_gap = 2
    /\ Len(todo) < Len(collapse_cidrs_merged(input, 1))
    /\ Len(collapse_cidrs(input, 2).out) > Len(collapse_cidrs(input, 0).out)

(* ----------------------- C9: gap tolerance 0 -------------------------- *)

\* C9: collapse_ranges_fuzzy(input, 0) ends as collapse_ranges(input) does: with
\* the same error, or with the same blocks in the same order; its fuzzy pass
\* joins no two ranges of the exact merge.
C9_FuzzyZeroIsExact ==
    (entry = "collapse_ranges_fuzzy" /\ max_gap = 0) =>
        /\ Ended => Outcome = collapse_ranges(input)
        /\ JustCalled => todo = collapse_ranges_merged(input)

\* collapse_ranges_fuzzy(input, 0) has returned blocks of two ranges of one
\* family that a single address separates
C9_Witness ==
    /\ entry = "collapse_ranges_fuzzy"
    /\ max_gap = 0
    /\ pc = "done"
    /\ Len(collapse_ranges_merged(input)) = 2
    /\ collapse_ranges_merged(input)[1].fam = collapse_ranges_merged(input)[2].fam
    /\ collapse_ranges_merged(input)[2].beg = collapse_ranges_merged(input)[1].end + 2

(* ------------------------ C10: the Cidr iterator ---------------------- *)

\* the prefix cidr_to_range works with, and the block it stands for
Clamped(c) == [c EXCEPT !.prefix = Min(c.prefix, BitsOf(c.addr.fam))]

\* C10: successive next() calls yield the block's addresses in ascending order,
\* each once, from the network address to the last address, and None ever
\* after.
C10_CidrIterFinite ==
    it.fam \in IpFam =>
        \A i \in 1..Len(got) :
            got[i] = IF i <= BlockSize(Clamped(cidr))
                     THEN Some([fam |-> cidr.addr.fam, v |-> FirstOf(Clamped(cidr)) + i - 1])
                     ELSE None

\* the same holds of every block that does not end at the top of the V6 space
C10_ExceptTop ==
    (it.fam \in IpFam /\ ~(cidr.addr.fam = "V6" /\ LastOf(Clamped(cidr)) = U128_MAX)) =>
        \A i \in 1..Len(got) :
            got[i] = IF i <= BlockSize(Clamped(cidr))
                     THEN Some([fam |-> cidr.addr.fam, v |-> FirstOf(Clamped(cidr)) + i - 1])
                     ELSE None

(* ---------------------- C11: the IpRange iterator --------------------- *)

\* what an iterator of the IpRange r returns on its i-th call of next()
NthOf(r, i) ==
    IF i <= r.end.v - r.beg.v + 1 THEN Some([fam |-> r.beg.fam, v |-> r.beg.v + i - 1])
    ELSE None

\* C11: an iterator of an IpRange built by IpRange::new yields beg, beg + 1,
\* ..., end, end - beg + 1 items, and None on every later call, also when end is
\* the highest address of the family; an iterator made again of the same
\* IpRange yields the same, and the IpRange stays as IpRange::new returned it.
C11_IpRangeIterFinite ==
    rit # NoRangeIter =>
        /\ rnew.err = "none"
        /\ rit.end = rnew.range.end
        /\ \A i \in 1..Len(rgot) : rgot[i] = NthOf(rnew.range, i)
        /\ \A i \in 1..Len(prev) : prev[i] = NthOf(rnew.range, i)

\* a second iterator of a range that ends at the highest address of its
\* family has yielded that address and then None, as the first one did
C11_Witness ==
    /\ rit # NoRangeIter
    /\ rnew.range.end.v = FamMax(rnew.range.end.fam)
    /\ rnew.range.beg.v < rnew.range.end.v
    /\ Len(rgot) >= 2
    /\ rgot[Len(rgot)] = None
    /\ rgot[Len(rgot) - 1] = None
    /\ prev = rgot

(* ------------------------ C12: length agreement ---------------------- *)

\* C12: for every Cidr with a prefix in 0..=width, host bits set or not,
\* Cidr::len equals Range::len of cidr_to_range, so that the assertion of
\* CidrIterator::new holds; both are 2^(width - prefix), and u128::MAX for the
\* v6 block of prefix 0.
C12_LengthsAgree ==
    (it # NoIter /\ cidr.prefix <= BitsOf(cidr.addr.fam)) =>
        /\ it # Panicked
        /\ Cidr_len(cidr) = Range_len(cidr_to_range(cidr))
        /\ Cidr_len(cidr) = IF cidr.addr.fam = "V6" /\ cidr.prefix = 0
                            THEN U128_MAX
                            ELSE 2^(BitsOf(cidr.addr.fam) - cidr.prefix)

\* an iterator was made of a v6 block of prefix 0 whose address has host bits
C12_Witness ==
    /\ it.fam = "V6"
    /\ cidr.prefix = 0
    /\ cidr.addr.v > 0
    /\ Cidr_len(cidr) = U128_MAX

(* ------------------ what the claims on texts speak of ----------------- *)

\* the shape is a CIDR with a prefix its family allows
ValidCidr(sh) == sh.kind = "cidr" /\ sh.n <= BitsOf(sh.a.fam)

\* the address a short form a-n ends at: a with its last octet or group n
ShortEnd(sh) ==
    [fam |-> sh.a.fam,
     v |-> IF sh.a.fam = "V4"
           THEN (sh.a.v \div (OCTET_MAX + 1)) * (OCTET_MAX + 1) + sh.n
           ELSE (sh.a.v \div (HEXTET_MAX + 1)) * (HEXTET_MAX + 1) + sh.n]

\* the largest n a short form may give for the family of its start
ShortMax(sh) == IF sh.a.fam = "V4" THEN OCTET_MAX ELSE HEXTET_MAX

\* the shape is a range, full or short, from an address to one not below it
\* in the same family
ValidRange(sh) ==
    \/ sh.kind \in {"range", "spaced", "pair"} /\ sh.a.fam = sh.b.fam /\ sh.a.v <= sh.b.v
    \/ sh.kind \in {"short", "plus"} /\ sh.n <= ShortMax(sh) /\ sh.a.v <= ShortEnd(sh).v

\* the first and the last address of a valid range
RangeBeg(sh) == sh.a
RangeEnd(sh) == IF sh.kind \in {"short", "plus"} THEN ShortEnd(sh) ELSE sh.b

\* the number of addresses a valid CIDR or range asks for
Span(sh) ==
    IF sh.kind = "cidr" THEN 2^(BitsOf(sh.a.fam) - sh.n)
    ELSE RangeEnd(sh).v - RangeBeg(sh).v + 1

\* the v6 block of prefix 0
V6Zero(sh) == sh.kind = "cidr" /\ sh.a.fam = "V6" /\ sh.n = 0

IsErr(r, name) == r.kind = "Err" /\ r.err[1] = name

(* ------------------------ C13: enumeration guard ---------------------- *)

\* C13: parse_ip_or_range never lists more than MAX_RANGE_SIZE addresses: for
\* every CIDR of either family with a valid prefix, prefix 0 included, and
\* every range whose number of addresses is above MAX_RANGE_SIZE the result is
\* Err(RangeTooLarge).
C13_EnumerationGuard ==
    call = "parse_ip_or_range" =>
        /\ res.kind = "Ok" => Len(res.val) <= MAX_RANGE_SIZE
        /\ ((ValidCidr(arg.shape) \/ ValidRange(arg.shape)) /\ Span(arg.shape) > MAX_RANGE_SIZE)
              => IsErr(res, "RangeTooLarge")

\* the same holds of every text but the v6 block of prefix 0
C13_ExceptV6Zero ==
    (call = "parse_ip_or_range" /\ ~V6Zero(arg.shape)) =>
        /\ res.kind # "Panic"
        /\ res.kind = "Ok" => Len(res.val) <= MAX_RANGE_SIZE
        /\ ((ValidCidr(arg.shape) \/ ValidRange(arg.shape)) /\ Span(arg.shape) > MAX_RANGE_SIZE)
              => IsErr(res, "RangeTooLarge")

(* ------------------ C14: the block of MAX_RANGE_SIZE ------------------ *)

\* the block of a valid CIDR shape, host bits cleared
BlockOf(sh) ==
    [addr |-> [fam |-> sh.a.fam, v |-> FirstOf([addr |-> sh.a, prefix |-> sh.n])],
     prefix |-> sh.n]

\* the block of a valid CIDR shape as an IpRange, first to last address
IpRangeOf(sh) ==
    [beg |-> [fam |-> sh.a.fam, v |-> FirstOf([addr |-> sh.a, prefix |-> sh.n])],
     end |-> [fam |-> sh.a.fam, v |-> LastOf([addr |-> sh.a, prefix |-> sh.n])]]

\* the collapsers return the one block for the span of a valid CIDR shape
CollapsesToBlock(sh) ==
    /\ collapse_cidrs(<<[addr |-> sh.a, prefix |-> sh.n]>>, 0)
          = [ok |-> TRUE, out |-> <<BlockOf(sh)>>]
    /\ collapse_ranges(<<IpRangeOf(sh)>>)
          = [err |-> "none", ok |-> TRUE, out |-> <<BlockOf(sh)>>]

\* the addresses of a valid CIDR shape that parse_ip_or_range lists: all of a
\* v6 block and of a v4 block of one or two addresses, otherwise those
\* strictly between the first and the last
HostsOf(sh) ==
    LET c == [addr |-> sh.a, prefix |-> sh.n]
        usable == sh.a.fam = "V4" /\ BlockSize(c) > 2
        first == IF usable THEN FirstOf(c) + 1 ELSE FirstOf(c)
        count == IF usable THEN BlockSize(c) - 2 ELSE BlockSize(c)
    IN  [i \in 1..count |-> [fam |-> sh.a.fam, v |-> first + i - 1]]

\* C14: expanding a v4 CIDR of exactly MAX_RANGE_SIZE addresses (10.0.0.0/16)
\* through parse_ip_or_range fails with RangeTooLarge, while the collapsers
\* return the single block for the same span.
C14_MaxBlockRefused ==
    (call = "parse_ip_or_range" /\ ValidCidr(arg.shape) /\ arg.shape.a.fam = "V4"
        /\ Span(arg.shape) = MAX_RANGE_SIZE) =>
        /\ IsErr(res, "RangeTooLarge")
        /\ CollapsesToBlock(arg.shape)

\* C14 as amended: a v4 CIDR of exactly MAX_RANGE_SIZE addresses is expanded
\* by parse_ip_or_range to its usable hosts, the guard refusing only larger
\* counts; the collapsers return the single block for the same span.
C14_MaxBlockExpanded ==
    (call = "parse_ip_or_range" /\ ValidCidr(arg.shape) /\ arg.shape.a.fam = "V4"
        /\ Span(arg.shape) = MAX_RANGE_SIZE) =>
        /\ res = Ok(HostsOf(arg.shape))
        /\ CollapsesToBlock(arg.shape)

\* a v4 CIDR of exactly MAX_RANGE_SIZE addresses, host bits set in its text,
\* was expanded to its MAX_RANGE_SIZE - 2 usable hosts
C14_Witness ==
    /\ call = "parse_ip_or_range"
    /\ ValidCidr(arg.shape)
    /\ arg.shape.a.fam = "V4"
    /\ arg.shape.a.v > 0
    /\ Span(arg.shape) = MAX_RANGE_SIZE
    /\ res.kind = "Ok"
    /\ Len(res.val) = MAX_RANGE_SIZE - 2

(* -------------------- C15: the count of RangeTooLarge ----------------- *)

\* C15: whenever generate_ip_range or parse_ip_or_range fails with
\* RangeTooLarge(n), n is the number of addresses of the span asked for.
C15_CountIsExact ==
    (call \in {"generate_ip_range", "parse_ip_or_range"} /\ IsErr(res, "RangeTooLarge")) =>
        /\ ValidCidr(arg.shape) \/ ValidRange(arg.shape)
        /\ res.err = <<"RangeTooLarge", Span(arg.shape)>>

\* C15 as amended: n is the number of addresses of the span, or u128::MAX for
\* the one span that has more, the whole v6 space.
C15_CountSaturates ==
    (call \in {"generate_ip_range", "parse_ip_or_range"} /\ IsErr(res, "RangeTooLarge")) =>
        /\ ValidCidr(arg.shape) \/ ValidRange(arg.shape)
        /\ res.err = <<"RangeTooLarge", Min(Span(arg.shape), U128_MAX)>>

\* generate_ip_range refused a v6 range that reaches the top of the space
\* without being all of it, with its exact count
C15_Witness ==
    /\ call = "generate_ip_range"
    /\ arg.shape.a.fam = "V6"
    /\ arg.shape.a.v > 0
    /\ arg.shape.b = [fam |-> "V6", v |-> U128_MAX]
    /\ res = Err(<<"RangeTooLarge", U128_MAX - arg.shape.a.v + 1>>)

(* ------------------------ C16: usable hosts only --------------------- *)

\* the sequence lists addresses of one family in strictly ascending order
Ascending(ips) ==
    \A i \in 1..(Len(ips) - 1) : ips[i].fam = ips[i + 1].fam /\ ips[i].v < ips[i + 1].v

\* C16: for a v4 CIDR text whose prefix leaves at least two host bits and
\* whose block the guard lets through, parse_ip_or_range returns exactly the
\* 2^(width - p) - 2 addresses strictly between the network and the broadcast
\* address, in ascending order; for a full-width prefix of either family it
\* returns exactly the one address itself.
C16_UsableHostsOnly ==
    (call = "parse_ip_or_range" /\ ValidCidr(arg.shape)) =>
        LET c == [addr |-> arg.shape.a, prefix |-> arg.shape.n]
            p == arg.shape.n
        IN  /\ (arg.shape.a.fam = "V4" /\ p <= IPV4_BITS - 2 /\ Span(arg.shape) <= MAX_RANGE_SIZE) =>
                  /\ res.kind = "Ok"
                  /\ Len(res.val) = 2^(IPV4_BITS - p) - 2
                  /\ Ascending(res.val)
                  /\ {res.val[i] : i \in 1..Len(res.val)}
                        = {[fam |-> "V4", v |-> v] : v \in (FirstOf(c) + 1)..(LastOf(c) - 1)}
            /\ p = BitsOf(arg.shape.a.fam) => res = Ok(<<arg.shape.a>>)

\* a v4 CIDR with two host bits, both set in its text, was expanded to the two
\* addresses between its network and its broadcast address
C16_Witness ==
    /\ call = "parse_ip_or_range"
    /\ ValidCidr(arg.shape)
    /\ arg.shape.a.fam = "V4"
    /\ arg.shape.n = IPV4_BITS - 2
    /\ arg.shape.a.v = LastOf([addr |-> arg.shape.a, prefix |-> arg.shape.n])
    /\ res.kind = "Ok"
    /\ Len(res.val) = 2
    /\ res.val[2].v = arg.shape.a.v - 1

(* ------------------------ C17: short-form range end ------------------ *)

\* the addresses from beg to end, in ascending order
Between(beg, end) == [i \in 1..(end.v - beg.v + 1) |-> [fam |-> beg.fam, v |-> beg.v + i - 1]]

\* a short form a-n whose n fits the last octet or group was read as the range
\* from a to a with its last octet or group replaced by n: the range itself
\* from parse_ip_range, its addresses from parse_ip_or_range, RangeOrder where
\* that end lies below a
ShortFormBuilt(sh) ==
    IF sh.a.v <= ShortEnd(sh).v
    THEN /\ call = "parse_ip_range" => res = Ok([beg |-> sh.a, end |-> ShortEnd(sh)])
         /\ call = "parse_ip_or_range" => res = Ok(Between(sh.a, ShortEnd(sh)))
    ELSE res = Err(<<"RangeOrder", sh.a, ShortEnd(sh)>>)

\* the error of a short form whose n is above the last octet or group
ShortFormAbove(sh) ==
    Err(<<IF sh.a.fam = "V4" THEN "InvalidV4Octet" ELSE "InvalidV6Hextet", sh.n>>)

\* C17: for a text a-n whose n has neither "." nor ":", the end address is a
\* with only its last octet (v4) or last group (v6) replaced by the decimal
\* value n; every n above 255 (v4) gives InvalidV4Octet(n), every n above
\* 65535 (v6) gives InvalidV6Hextet(n), and an n that is not a decimal integer
\* gives InvalidRangeEndVal.
C17_ShortEndAnyNumber ==
    (call \in {"parse_ip_range", "parse_ip_or_range"}) =>
        /\ arg.shape.kind = "short" =>
              IF arg.shape.n > ShortMax(arg.shape) THEN res = ShortFormAbove(arg.shape)
              ELSE ShortFormBuilt(arg.shape)
        /\ arg.shape.kind = "word" => IsErr(res, "InvalidRangeEndVal")

\* C17 as amended: n is read as a u32, with or without a leading "+"; an n
\* that is no decimal integer or is above u32::MAX gives InvalidRangeEndVal, an
\* n up to u32::MAX above 255 (v4) or 65535 (v6) gives InvalidV4Octet(n) or
\* InvalidV6Hextet(n), and any other n replaces only the last octet or group
\* of a.
C17_ShortEndAsU32 ==
    (call \in {"parse_ip_range", "parse_ip_or_range"}) =>
        /\ arg.shape.kind \in {"short", "plus"} =>
              IF arg.shape.n > U32_MAX
              THEN /\ IsErr(res, "InvalidRangeEndVal")
                   /\ res.err[2] = SubSeq(arg.text, Len(fmt_IpAddr(arg.shape.a)) + 2, Len(arg.text))
              ELSE IF arg.shape.n > ShortMax(arg.shape) THEN res = ShortFormAbove(arg.shape)
              ELSE ShortFormBuilt(arg.shape)
        /\ arg.shape.kind = "word" => IsErr(res, "InvalidRangeEndVal")

\* parse_ip_range read a v6 short form whose start has higher groups set and
\* a last group of 0, and kept the higher groups in the end address
C17_Witness ==
    /\ call = "parse_ip_range"
    /\ arg.shape.kind = "short"
    /\ arg.shape.a.fam = "V6"
    /\ arg.shape.a.v >= HEXTET_MAX + 1
    /\ arg.shape.a.v % (HEXTET_MAX + 1) = 0
    /\ arg.shape.n = HEXTET_MAX
    /\ res.kind = "Ok"
    /\ res.val.end.v = arg.shape.a.v + HEXTET_MAX

(* --------------------- C18: validated construction ------------------- *)

\* the error IpRange::new gives for the two addresses, <<>> where it gives none
NewError(beg, end) ==
    IF beg.fam = "V4" /\ end.fam = "V6" THEN <<"Mismatch", beg, end>>
    ELSE IF beg.fam = "V6" /\ end.fam = "V4" THEN <<"Mismatch", end, beg>>
    ELSE IF beg.v > end.v THEN <<"RangeOrder", beg, end>>
    ELSE <<>>

\* C18: IpRange::new(beg, end) gives Err(Mismatch) for two families, else
\* Err(RangeOrder(beg, end)) for beg above end, else Ok with beg and end as
\* given; parse_ip_range and parse_ip_or_range hand these errors on for a
\* range text, so a reversed range text fails and lists no address.
C18_ValidatedRange ==
    LET a == arg.shape.a
        b == arg.shape.b
    IN  /\ rnew # NoRange =>
              IF NewError(a, b) = <<>>
              THEN rnew = [err |-> "none", range |-> [beg |-> a, end |-> b]]
              ELSE rnew = [err |-> NewError(a, b)]
        /\ (call \in {"parse_ip_range", "parse_ip_or_range"}
                /\ arg.shape.kind \in {"range", "spaced"}) =>
              IF NewError(a, b) # <<>> THEN res = Err(NewError(a, b))
              ELSE call = "parse_ip_range" => res = Ok([beg |-> a, end |-> b])

\* parse_ip_or_range refused a reversed v6 range text with RangeOrder
C18_Witness ==
    /\ call = "parse_ip_or_range"
    /\ arg.shape.kind = "range"
    /\ arg.shape.a.fam = "V6"
    /\ arg.shape.b.fam = "V6"
    /\ arg.shape.a.v > arg.shape.b.v
    /\ res = Err(<<"RangeOrder", arg.shape.a, arg.shape.b>>)

(* ----------------------- C19: tuples are validated ------------------- *)

\* the tuples of the input that IpRange::new refuses
BadTuples == {i \in 1..Len(input) : NewError(input[i][1], input[i][2]) # <<>>}

\* C19: collapse_ranges_tuples fails when any tuple is invalid, with
\* RangeOrder for a tuple whose beg is above its end and Mismatch for a tuple
\* of two families; the tuple is not put in order, and no block is returned
\* even if the other tuples are valid.
C19_TuplesValidated ==
    entry = "collapse_ranges_tuples" =>
        IF BadTuples = {}
        THEN pc # "err" /\ err = "none"
        ELSE LET first == CHOOSE i \in BadTuples : \A j \in BadTuples : i <= j
             IN  /\ pc = "err"
                 /\ err = NewError(input[first][1], input[first][2])
                 /\ Emitted = <<>>
                 /\ todo = <<>>

\* collapse_ranges_tuples failed with RangeOrder on a list whose first tuple
\* is valid and whose second is reversed
C19_Witness ==
    /\ entry = "collapse_ranges_tuples"
    /\ pc = "err"
    /\ Len(input) = 2
    /\ NewError(input[1][1], input[1][2]) = <<>>
    /\ input[2][1].fam = input[2][2].fam
    /\ input[2][1].v > input[2][2].v
    /\ err = <<"RangeOrder", input[2][1], input[2][2]>>
    /\ out = <<>>

(* ------------------------ C20: lenient strings ----------------------- *)

\* the token is one that parses: a bare address, or an address, "/" and a
\* prefix its family allows
Parses(sh) ==
    \/ sh.kind = "ip"
    \/ sh.kind \in {"cidr", "padcidr"} /\ sh.n <= BitsOf(sh.a.fam)

\* the Cidr a token that parses stands for
CidrOfToken(sh) ==
    [addr |-> sh.a, prefix |-> IF sh.kind = "ip" THEN BitsOf(sh.a.fam) ELSE sh.n]

\* the Cidrs of the tokens of the input that parse, in the order of the input
ParsedCidrs ==
    LET kept == SelectSeq(input, LAMBDA t : Parses(t.shape))
    IN  [i \in 1..Len(kept) |-> CidrOfToken(kept[i].shape)]

\* C20: collapse_strings never fails, and ends as collapse_cidrs does on
\* exactly the tokens that parse, with the same gap tolerance: a token with
\* "/" is read as a CIDR, any other as a bare address made a host CIDR; a
\* token that does not parse (a range, a prefix above the width) is skipped
\* and changes nothing for the others.
C20_StringsLenient ==
    entry = "collapse_strings" =>
        /\ pc # "err"
        /\ err = "none"
        /\ JustCalled => todo = collapse_cidrs_merged(ParsedCidrs, max_gap)
        /\ Ended => [ok |-> Outcome.ok, out |-> Outcome.out] = collapse_cidrs(ParsedCidrs, max_gap)

\* collapse_strings skipped a CIDR whose prefix is above the width and
\* returned the host block of the bare address that followed it
C20_Witness ==
    /\ entry = "collapse_strings"
    /\ pc = "done"
    /\ Len(input) = 2
    /\ input[1].shape.kind = "cidr"
    /\ input[1].shape.n > BitsOf(input[1].shape.a.fam)
    /\ input[2].shape.kind = "ip"
    /\ out = <<[addr |-> input[2].shape.a, prefix |-> BitsOf(input[2].shape.a.fam)]>>

(* ------------------------ C21: CIDR text round trip ------------------ *)

\* C21: for every CIDR text (an address, "/", a prefix) that FromStr of a
\* Cidr accepts, Display of the parsed value gives back exactly the text, the
\* address as stored with its host bits.
C21_RoundTripAccepted ==
    (call = "Cidr::fmt" /\ contains(arg.text, SLASH)) => res.val = arg.text

\* C21 as amended: the text comes back exactly when it is written as Display
\* writes it (the address, "/", the prefix in decimal with no blank, sign or
\* leading zero), the address as stored with its host bits; every other text
\* that is accepted comes back in that form, which parses to the same Cidr.
C21_RoundTripCanonical ==
    call = "Cidr::fmt" =>
        /\ arg.shape.kind = "cidr" =>
              /\ res.val = arg.text
              /\ cidr = [addr |-> arg.shape.a, prefix |-> arg.shape.n]
        /\ Cidr_from_str(res.val) = [ok |-> TRUE, cidr |-> cidr]
        /\ cidr.prefix <= BitsOf(cidr.addr.fam)

\* a v6 CIDR text with host bits set was parsed and written back as it was
C21_Witness ==
    /\ call = "Cidr::fmt"
    /\ arg.shape.kind = "cidr"
    /\ arg.shape.a.fam = "V6"
    /\ arg.shape.n < IPV6_BITS
    /\ arg.shape.a.v % 2 = 1
    /\ res.val = arg.text

(* ------------------------ C22: strict normalisation ------------------ *)

\* C22: in strict mode the path normalize_path returns has no character that
\* is_suspicious_char flags and none that is_suspicious_strict flags.
C22_StrictRemovesBoth ==
    (call = "normalize_path" /\ arg.strict) =>
        \A i \in DOMAIN res.val :
            ~is_suspicious_char(res.val[i]) /\ ~is_suspicious_strict(res.val[i])

\* each mode removes the characters of its own function, and the result is
\* what the loop and the join make of the characters that are left
C22_EachModeItsOwn ==
    call = "normalize_path" =>
        /\ \A i \in DOMAIN res.val :
              IF arg.strict THEN ~is_suspicious_strict(res.val[i])
              ELSE ~is_suspicious_char(res.val[i])
        /\ \A i \in DOMAIN res.val : \E j \in DOMAIN arg.path : res.val[i] = arg.path[j]

(* ------------------------ C23: refresh interval ---------------------- *)

\* C23: under any interleaving of threads calling mem() and cpu() on one
\* ProcessInfo, every refreshing write section runs when at least the interval
\* (as the thread read it) has passed since the time of the refresh before it.
C23_RefreshInterval ==
    wrote # NoRefresh => wrote.elapsed >= wrote.ival

\* the lock keeps the write section to one thread with no reader, and a write
\* section that found less than the interval passed is one whose thread made
\* its check before another thread's refresh
C23_ExceptRace ==
    /\ lock.writer # 0 => lock.readers = {}
    /\ \A t \in Threads : thr[t].pc = "refresh" <=> lock.writer = t
    /\ (wrote # NoRefresh /\ ~wrote.raced) => wrote.elapsed >= wrote.ival

(* ------------------------ C24: the exact merge ----------------------- *)

\* every address of the ranges of a list
RangesCover(rs) == UNION {RangeAddrs(rs[i]) : i \in DOMAIN rs}

\* family before family, V4 first, then beg, then end
SortsBefore(a, b) ==
    \/ a.fam = "V4" /\ b.fam = "V6"
    \/ a.fam = b.fam /\ a.beg < b.beg
    \/ a.fam = b.fam /\ a.beg = b.beg /\ a.end < b.end

\* the highest end among the ranges of s before the k-th that are of its family
EndBefore(s, k) ==
    LET ends == {s[j].end : j \in {i \in 1..(k - 1) : s[i].fam = s[k].fam}}
    IN  IF ends = {} THEN -2 ELSE CHOOSE e \in ends : \A x \in ends : x <= e

\* the ranges of s that are not merged into the current one: the first, the
\* first of a family, and those that begin above the current end + 1
Openers(s) == {k \in DOMAIN s : EndBefore(s, k) = -2 \/ s[k].beg > EndBefore(s, k) + 1}

\* C24: on ranges sorted by (family, beg, end), merge_ranges returns ranges
\* still sorted by that key, each with beg <= end, of one family only where
\* next.beg > prev.end + 1, covering exactly the addresses of the input; a
\* range is merged into the current one iff it is of its family and begins at
\* or below its end + 1, and the end becomes the higher of the two.
C24_ExactMerge ==
    entry = "merge_ranges" =>
        /\ \A i \in 1..(Len(todo) - 1) :
              /\ SortsBefore(todo[i], todo[i + 1])
              /\ todo[i].fam = todo[i + 1].fam => todo[i + 1].beg > todo[i].end + 1
        /\ \A i \in DOMAIN todo : todo[i].beg <= todo[i].end
        /\ RangesCover(todo) = RangesCover(input)
        /\ Len(todo) = Cardinality(Openers(input))
        /\ {<<todo[i].fam, todo[i].beg>> : i \in DOMAIN todo}
              = {<<input[k].fam, input[k].beg>> : k \in Openers(input)}

\* merge_ranges made one range of three of a family: the second overlaps the
\* first and ends above it, the third begins right after the second
C24_Witness ==
    /\ entry = "merge_ranges"
    /\ Len(input) = 3
    /\ input[1].fam = input[3].fam
    /\ input[2].beg > input[1].beg
    /\ input[2].beg <= input[1].end
    /\ input[2].end > input[1].end
    /\ input[3].beg = input[2].end + 1
    /\ todo = <<[fam |-> input[1].fam, beg |-> input[1].beg, end |-> input[3].end]>>

(* ------------------------ C25: the fuzzy merge ----------------------- *)

\* the k-th range of the input and the one before it are of one family, and
\* at most max_gap addresses lie strictly between them
Near(k) ==
    /\ input[k].fam = input[k - 1].fam
    /\ input[k].beg - (input[k - 1].end + 1) <= max_gap

\* one range of the result holds both the k-th range of the input and the
\* one before it
Together(k) ==
    \E i \in DOMAIN todo :
        /\ todo[i].fam = input[k].fam
        /\ todo[i].fam = input[k - 1].fam
        /\ todo[i].beg <= input[k - 1].beg
        /\ input[k].end <= todo[i].end

\* the addresses strictly between the k-th range of the input and the one
\* before it
GapAddrs(k) ==
    {[fam |-> input[k].fam, v |-> a] : a \in (input[k - 1].end + 1)..(input[k].beg - 1)}

\* C25: in the fuzzy pass over merged, sorted ranges with tolerance g, two
\* consecutive ranges of a family end up in one range of the result iff the
\* number of addresses strictly between them is at most g; the result covers
\* the input and every address of the gaps swallowed, and no address of a gap
\* above g.
C25_FuzzyMergeRule ==
    entry = "merge_ranges_fuzzy" =>
        /\ \A k \in 2..Len(input) : Together(k) <=> Near(k)
        /\ RangesCover(todo)
              = RangesCover(input) \cup UNION {GapAddrs(k) : k \in {j \in 2..Len(input) : Near(j)}}
        /\ Len(todo) = Len(input) - Cardinality({k \in 2..Len(input) : Near(k)})
        /\ \A i \in 1..(Len(todo) - 1) : SortsBefore(todo[i], todo[i + 1])

\* merge_ranges_fuzzy with tolerance 2 made one range of three ranges that
\* two addresses and one address separate
C25_Witness ==
    /\ entry = "merge_ranges_fuzzy"
    /\ max_gap = 2
    /\ Len(input) = 3
    /\ input[1].fam = input[3].fam
    /\ input[2].beg = input[1].end + 3
    /\ input[3].beg = input[2].end + 2
    /\ todo = <<[fam |-> input[1].fam, beg |-> input[1].beg, end |-> input[3].end]>>

(* ------------------------ C26: CIDR to range ------------------------- *)

\* C26: for every Cidr with a prefix in 0..=width, host bits arbitrary,
\* cidr_to_range returns beg = the address with its low width - prefix bits
\* cleared and end = beg with those bits set: beg <= address <= end, end - beg
\* + 1 = 2^(width - prefix), a v4 end within u32; the mask has exactly the top
\* prefix bits of the width set, none for prefix 0 and all for prefix = width.
C26_CidrToRange ==
    (entry = "cidr_to_range" /\ input[1].prefix <= BitsOf(input[1].addr.fam)) =>
        LET c == input[1]
            r == todo[1]
            width == BitsOf(c.addr.fam)
            size == 2^(width - c.prefix)
        IN  /\ r.fam = c.addr.fam
            /\ r.beg = c.addr.v - (c.addr.v % size)
            /\ r.end = r.beg + (size - 1)
            /\ r.beg <= c.addr.v /\ c.addr.v <= r.end
            /\ r.end - r.beg + 1 = size
            /\ c.addr.fam = "V4" => r.end <= U32_MAX
            /\ mask_of(c) = (2^width - 1) - (size - 1)
            /\ c.prefix = 0 => mask_of(c) = 0
            /\ c.prefix = width => mask_of(c) = 2^width - 1

\* cidr_to_range cleared and set the host bits of a v6 Cidr whose address lies
\* strictly inside its block
C26_Witness ==
    /\ entry = "cidr_to_range"
    /\ input[1].addr.fam = "V6"
    /\ input[1].prefix > 0
    /\ input[1].prefix < IPV6_BITS - 1
    /\ todo[1].beg < input[1].addr.v
    /\ input[1].addr.v < todo[1].end

(* ------------------------ C27: reversed IpRange ---------------------- *)

\* an IpRange of one family whose beg is above its end
Reversed(r) == r.beg.fam = r.end.fam /\ r.beg.v > r.end.v

\* the list with the endpoints of its i-th IpRange swapped
SwappedAt(inp, i) == [inp EXCEPT ![i] = [beg |-> inp[i].end, end |-> inp[i].beg]]

\* C27: collapse_ranges and collapse_ranges_fuzzy given an IpRange of one family
\* with beg above end return no error for it: the range is taken as [end, beg],
\* and the call ends as it does for the list with that range's endpoints
\* swapped.
C27_ReversedTaken ==
    (entry \in {"collapse_ranges", "collapse_ranges_fuzzy"}) =>
        \A i \in 1..Len(input) :
            Reversed(input[i]) =>
                /\ pc = "err" => /\ err[1] = "Mismatch"
                                 /\ <<err[2], err[3]>> # <<input[i].beg, input[i].end>>
                /\ iprange_to_range(input[i]) =
                       [err |-> "none",
                        range |-> [fam |-> input[i].beg.fam,
                                   beg |-> input[i].end.v, end |-> input[i].beg.v]]
                /\ JustCalled =>
                       todo = IF entry = "collapse_ranges"
                              THEN collapse_ranges_merged(SwappedAt(input, i))
                              ELSE collapse_ranges_fuzzy_merged(SwappedAt(input, i), max_gap)
                /\ Ended =>
                       Outcome = IF entry = "collapse_ranges"
                                 THEN collapse_ranges(SwappedAt(input, i))
                                 ELSE collapse_ranges_fuzzy(SwappedAt(input, i), max_gap)

\* collapse_ranges_fuzzy has returned the blocks of a reversed v6 range of
\* several addresses and of a second range that the reversed one reaches
C27_Witness ==
    /\ entry = "collapse_ranges_fuzzy"
    /\ pc = "done"
    /\ Len(input) = 2
    /\ Reversed(input[1])
    /\ input[1].beg.fam = "V6"
    /\ input[1].beg.v > input[1].end.v + 1
    /\ ~Reversed(input[2])
    /\ input[2].beg.fam = "V6"
    /\ input[2].beg.v > input[1].end.v
    /\ input[2].beg.v < input[1].beg.v
    /\ input[2].end.v > input[1].beg.v
    /\ Len(out) > 0

(* ------------------------ C28: canonical blocks ---------------------- *)

\* the Cidr's prefix is within its family's width and its host bits are zero
Canonical(c) ==
    /\ c.prefix \in 0..BitsOf(c.addr.fam)
    /\ c.addr.v % (2^(BitsOf(c.addr.fam) - c.prefix)) = 0

\* a Cidr of the input whose address has host bits set
HostBits(c) == c.prefix < BitsOf(c.addr.fam) /\ ~Canonical(c)

\* C28: every Cidr emitted by a collapse entry point is canonical: its prefix
\* lies in 0..=width of its family and the low width - prefix bits of its
\* address are zero, also when input CIDRs carried host bits or the fuzzy pass
\* was applied.
C28_EmittedCanonical == \A i \in 1..Len(Emitted) : Canonical(Emitted[i])

\* collapse_cidrs has returned two blocks or more for two CIDRs with host bits
\* that its fuzzy pass joined over a gap
C28_Witness ==
    /\ entry = "collapse_cidrs"
    /\ pc = "done"
    /\ max_gap > 0
    /\ Len(input) = 2
    /\ HostBits(input[1]) /\ HostBits(input[2])
    /\ Len(collapse_cidrs_merged(input, 0)) = 2
    /\ Len(collapse_cidrs_merged(input, max_gap)) = 1
    /\ Len(out) >= 2

(* ------------------------ C29: order and repetition ------------------ *)

\* the blocks of the list, as a set
BlocksOf(inp) == {inp[i] : i \in DOMAIN inp}

\* the lists of the same blocks in any order, entries repeated or not, one
\* longer than the longest list called with
Rearranged(inp) ==
    {other \in SeqsUpTo(BlocksOf(inp), MaxInput + 1) : BlocksOf(other) = BlocksOf(inp)}

\* C29: the result of collapse_cidrs depends only on the set of input blocks
\* and the gap tolerance: any permutation of the list and any repetition of
\* entries already present gives the identical output list, same blocks in the
\* same order.
C29_SetOfBlocksOnly ==
    (entry = "collapse_cidrs") =>
        \A other \in Rearranged(input) :
            /\ JustCalled => todo = collapse_cidrs_merged(other, max_gap)
            /\ Ended => /\ Emitted = collapse_cidrs(other, max_gap).out
                        /\ (pc = "done") = collapse_cidrs(other, max_gap).ok

\* collapse_cidrs has returned the blocks of two CIDRs given in descending
\* order that neither touch nor are joined by the fuzzy pass
C29_Witness ==
    /\ entry = "collapse_cidrs"
    /\ pc = "done"
    /\ max_gap = 1
    /\ Len(input) = 2
    /\ input[1].addr.fam = input[2].addr.fam
    /\ cidr_to_range(input[1]).beg > cidr_to_range(input[2]).end + 2
    /\ Len(out) >= 2
    /\ Cardinality(Rearranged(input)) > 2

(* ------------------------ C30: the two families ---------------------- *)

IsV4(r) == r.fam = "V4"
IsV6(r) == r.fam = "V6"

\* the pass that was called, applied to a list
PassOn(rs) ==
    IF entry = "merge_ranges" THEN merge_ranges(rs) ELSE merge_ranges_fuzzy(rs, max_gap)

\* C30: ranges of different families are never merged, in the exact and in the
\* fuzzy pass and for every gap tolerance, the largest included: the pass gives
\* the v4 ranges merged on their own, then the v6 ranges merged on their own,
\* however close or overlapping the integer values of the two families are;
\* every output range begins at the beg and ends at the end of input ranges of
\* its own family, so it covers only their addresses and the gaps between them.
C30_FamiliesApart ==
    (entry \in {"merge_ranges", "merge_ranges_fuzzy"}) =>
        /\ todo = PassOn(SelectSeq(input, IsV4)) \o PassOn(SelectSeq(input, IsV6))
        /\ \A i \in DOMAIN todo :
              /\ \E j \in DOMAIN input :
                    input[j].fam = todo[i].fam /\ input[j].beg = todo[i].beg
              /\ \E k \in DOMAIN input :
                    input[k].fam = todo[i].fam /\ input[k].end = todo[i].end
        /\ {r.fam : r \in RangesCover(todo)} = {r.fam : r \in RangesCover(input)}

\* merge_ranges_fuzzy with the largest tolerance has joined two v6 ranges over
\* a gap and left apart the v4 range that ends where the first of them begins
C30_Witness ==
    /\ entry = "merge_ranges_fuzzy"
    /\ max_gap = U128_MAX
    /\ Len(input) = 3
    /\ input[1].fam = "V4"
    /\ input[2].fam = "V6"
    /\ input[3].fam = "V6"
    /\ input[2].beg <= input[1].end + 1
    /\ input[3].beg > input[2].end + 1
    /\ Len(todo) = 2
    /\ todo[1] = input[1]
    /\ todo[2] = [fam |-> "V6", beg |-> input[2].beg, end |-> input[3].end]

====
